---- MODULE Spec2Model ----
(***************************************************************************)
(* A model of the Jarvis assistant's LLM fallback pipeline:                *)
(*   - the fallback orchestrator (assistant/LLM/llm_search.py) with the    *)
(*     streaming TTS queue it feeds (assistant/core/mouth.py, mouth2.py),  *)
(*   - the provider adapters llm1..llm4 (assistant/LLM/llm*.py),           *)
(*   - the conversation history manager (trim_history, simple_summarize),  *)
(*   - the streamed-response line parser and sentence segmentation of      *)
(*     llm3_streaming,                                                     *)
(*   - the Q&A store (save_data_locally.py and brain.py).                  *)
(*                                                                         *)
(* Text is a sequence of one-character strings, so that slicing,           *)
(* splitting, stripping and joining are computed as the code computes them.*)
(* The module holds several specifications over one set of variables; each *)
(* specification moves its own group of variables and leaves the others    *)
(* at their initial value.                                                 *)
(***************************************************************************)
EXTENDS Integers, Sequences, FiniteSets, TLC

VARIABLES
    \* ---- conversation history manager (trim_history as a pure function)
    trimIn,          \* the history handed to trim_history
    trimCap,         \* max_messages
    trimOut1,        \* trim_history(trimIn, trimCap)
    trimOut2,        \* trim_history(trimOut1, trimCap)
    trimPc,          \* "start" | "once" | "twice"
    \* ---- consuming one streamed response (llm3_streaming, llm3, llm4.generate)
    strAdapter,      \* which adapter's loop consumes the response
    strLines,        \* the lines response.iter_lines() yields
    strIdx,          \* index of the next line
    strBuffer,       \* llm3_streaming's sentence_buffer
    strSentences,    \* llm3_streaming's sentences
    strRaw,          \* llm3's raw_completion / generate's streaming_text
    strPc,           \* "reading" | "done" | "raised"
    strExc,          \* the exception that left the loop, or NoneVal
    \* ---- Q&A store (save_data_locally.py, brain.py)
    qa_file,         \* the JSON object in qna_data.json: question -> answer
    qa_dict,         \* module -> its module-level qa_dict
    qa_lock,         \* module -> the writer holding its qa_lock, or NoWriter
    wMod,            \* writer -> the module whose qa_dict and qa_lock it uses
    wPc,             \* writer -> its position in "with qa_lock: insert; save"
    wTmp,            \* writer -> the content of its temporary file, or NoneVal
    wSaved,          \* writer -> its save replaced the file
    wTmpState,       \* writer -> "none", "partial" or "complete": its temporary file
    qa_file_whole,   \* qna_data.json holds one complete JSON document
    everPersisted,   \* the questions the file has ever held
    \* ---- module-level conversation histories of the adapters
    llm2_conversation,   \* llm2.conversation
    llm3_CHAT_HISTORY,   \* llm3.CHAT_HISTORY
    llm4_CHAT_HISTORY,   \* llm4.CHAT_HISTORY
    calls,               \* adapter calls made so far (bounded by MaxCalls)
    lastLlm4,            \* text and outcome of the latest llm4 call since a clear
    \* ---- the streaming TTS of core/mouth.py (online) or core/mouth2.py
    online,              \* speak_selector.online, fixed at import
    tts_queue,           \* the sentences waiting in tts_queue
    unfinished_tasks,    \* tts_queue.unfinished_tasks, what join() waits on
    is_tts_running,      \* _is_tts_running
    consumerPc,          \* "absent", "idle" (in get) or "speaking"
    consumerSentence,    \* the sentence the consumer is speaking
    uttered,             \* the speak calls that have finished during this query
    \* ---- llm_response_streaming
    oPc,                 \* "idle", "call", "blocked", "clear", "start", "put", "returned"
    oLevel,              \* 1, 2, 3: the try block the call is in
    oInput,              \* user_input
    oSentences,          \* the value the provider returned (sentences)
    oPutIdx,             \* position of the for loop of speak_streaming
    oResult,             \* how the call ended: a returned text or an exception
    attempts,            \* the providers invoked by this call, with outcomes
    queries,             \* calls of llm_response_streaming made so far
    \* ---- one direct call of llm3 / llm3_streaming on a caller's list
    callHistory,         \* conversation_history, the caller's list
    callInput,           \* user_input
    callPrompt,          \* system_prompt (<<>>: none)
    callStreaming,       \* llm3_streaming rather than llm3
    callKey,             \* OPENROUTER_API_KEY is set
    callRequest,         \* the request that went out, if any
    callOut,             \* how the call ended
    callStored,          \* the call stored its answer in the Q&A store
    callPc,              \* "ready", "done"
    \* ---- the command loop
    cmdPc,               \* where the loop is: "listen", "process_command", ...
    command_mode,        \* command_mode of command()
    cmdKind,             \* what the heard text is
    cmdTrace,            \* what has been consulted for the current command
    cmdWikiOutcome,      \* how the Wikipedia lookup of the handler ended
    cmdWaitFor,          \* the number of the query llm_response is running
    \* ---- the threads of the speech module (mouth.py / mouth2.py)
    tts_lock,            \* _tts_lock: "free" or the thread holding it
    consumers,           \* consumer thread -> "unborn", "check", "get", "speaking", "exited"
    spkPc,               \* monitor thread -> "idle" or "speaking" (inside speak())
    mainPc,              \* the main thread: "ready", "speak", "clear", "start", "put", "wait"
    mainLeft,            \* sentences speak_streaming has still to put
    mainOps,             \* calls of the speech interface the main thread has made
    \* ---- alarms (alarm_reminder.py, main.py)
    clock,               \* int(time.time())
    alarm_file,          \* data/alarm_data/alarms.json: does it exist, and the object in it
    dicts,               \* the dictionary objects made so far: id -> target time
    ar_active_alarms,    \* the object alarm_reminder.active_alarms is bound to
    main_active_alarms,  \* the object main.active_alarms is bound to
    alarm_threads,       \* alarm_threads: id -> worker thread
    workers,             \* the alarm_worker threads started, with id, target and state
    cancelled,           \* the workers whose alarm a cancel_all_alarms call removed
    everCancelled,       \* cancel_all_alarms has been called
    setLog,              \* id and worker of every successful set_alarm call
    almPc,               \* "startup", "restored", "running"
    \* ---- parsing the time of one alarm or reminder command
    prsForm,             \* the command: its parts
    prsNow,              \* datetime.now(), in minutes
    prsTarget,           \* the target time parse_relative_time returned
    prsDuration,         \* what parse_duration returned
    prsPc,               \* "start", "relative", "done"
    \* ---- BatteryMonitor (battery_features.py)
    monitoring,              \* self.monitoring
    previous_plugged_state,  \* self.previous_plugged_state
    alertThreads,            \* the battery_alert threads started: state, notified_full, readings
    pluginThreads,           \* the check_plugin_status threads started: state
    batPc,                   \* the main thread: "ready", "start_join", "stop_join"
    batLast,                 \* the call that returned last: "none", "start", "stop"
    batStarts,               \* start_monitoring calls made
    readings                 \* battery readings taken by battery_alert threads

varsTrim == <<trimIn, trimCap, trimOut1, trimOut2, trimPc>>

varsStream == <<strAdapter, strLines, strIdx, strBuffer, strSentences, strRaw,
                strPc, strExc>>

varsTts == <<online, tts_queue, unfinished_tasks, is_tts_running, consumerPc,
             consumerSentence, uttered>>

varsOrch == <<oPc, oLevel, oInput, oSentences, oPutIdx, oResult, attempts, queries>>

varsCmd == <<cmdPc, command_mode, cmdKind, cmdTrace, cmdWikiOutcome, cmdWaitFor>>

varsCall == <<callHistory, callInput, callPrompt, callStreaming, callKey,
              callRequest, callOut, callStored, callPc>>

varsMouth == <<tts_lock, consumers, spkPc, mainPc, mainLeft, mainOps>>

varsAlarm == <<clock, alarm_file, dicts, ar_active_alarms, main_active_alarms,
               alarm_threads, workers, cancelled, everCancelled, setLog, almPc>>

varsParse == <<prsForm, prsNow, prsTarget, prsDuration, prsPc>>

varsBattery == <<monitoring, previous_plugged_state, alertThreads, pluginThreads, batPc,
                 batLast, batStarts, readings>>

\* the background services: speech threads, alarm workers, command times and
\* the battery monitor
varsServices == <<varsMouth, varsAlarm, varsParse, varsBattery>>

varsHist == <<llm2_conversation, llm3_CHAT_HISTORY, llm4_CHAT_HISTORY, calls, lastLlm4>>

varsQA == <<qa_file, qa_dict, qa_lock, wMod, wPc, wTmp, wSaved, everPersisted,
            wTmpState, qa_file_whole>>

vars == <<trimIn, trimCap, trimOut1, trimOut2, trimPc,
          strAdapter, strLines, strIdx, strBuffer, strSentences, strRaw,
          strPc, strExc,
          qa_file, qa_dict, qa_lock, wMod, wPc, wTmp, wSaved, everPersisted,
          wTmpState, qa_file_whole,
          llm2_conversation, llm3_CHAT_HISTORY, llm4_CHAT_HISTORY, calls, lastLlm4,
          online, tts_queue, unfinished_tasks, is_tts_running, consumerPc,
          consumerSentence, uttered,
          oPc, oLevel, oInput, oSentences, oPutIdx, oResult, attempts, queries,
          callHistory, callInput, callPrompt, callStreaming, callKey,
          callRequest, callOut, callStored, callPc,
          cmdPc, command_mode, cmdKind, cmdTrace, cmdWikiOutcome, cmdWaitFor,
          tts_lock, consumers, spkPc, mainPc, mainLeft, mainOps,
          clock, alarm_file, dicts, ar_active_alarms, main_active_alarms,
          alarm_threads, workers, cancelled, everCancelled, setLog, almPc,
          prsForm, prsNow, prsTarget, prsDuration, prsPc,
          monitoring, previous_plugged_state, alertThreads, pluginThreads, batPc,
          batLast, batStarts, readings>>

-----------------------------------------------------------------------------
(* Text helpers                                                            *)

Rep(c, n) == [i \in 1..n |-> c]

NoneVal == "None"

-----------------------------------------------------------------------------
(* The value each group of variables keeps while another specification runs *)

InitTrimIdle ==
    /\ trimIn = <<>>
    /\ trimCap = 0
    /\ trimOut1 = <<>>
    /\ trimOut2 = <<>>
    /\ trimPc = "idle"

InitStreamIdle ==
    /\ strAdapter = NoneVal
    /\ strLines = <<>>
    /\ strIdx = 0
    /\ strBuffer = <<>>
    /\ strSentences = <<>>
    /\ strRaw = <<>>
    /\ strPc = "idle"
    /\ strExc = NoneVal

SystemPrompt == <<"J", "a", "r", "v", "i", "s">>

NoResult == [kind |-> "none", exc |-> NoneVal, isNone |-> FALSE, val |-> <<>>]

NoCall == [called |-> FALSE, text |-> <<>>, out |-> NoResult]

\* llm2.py:48-53: conversation starts with the system turn; llm3.py:58 and
\* llm4.py:43: CHAT_HISTORY starts empty
InitHistIdle ==
    /\ llm2_conversation = <<[role |-> "system", content |-> SystemPrompt]>>
    /\ llm3_CHAT_HISTORY = <<>>
    /\ llm4_CHAT_HISTORY = <<>>
    /\ calls = 0
    /\ lastLlm4 = NoCall

\* mouth.py:30-36: an empty queue, no consumer thread
InitTtsIdle ==
    /\ tts_queue = <<>>
    /\ unfinished_tasks = 0
    /\ is_tts_running = FALSE
    /\ consumerPc = "absent"
    /\ consumerSentence = <<>>
    /\ uttered = <<>>

InitOrchIdle ==
    /\ oPc = "idle"
    /\ oLevel = 1
    /\ oInput = <<>>
    /\ oSentences = NoResult
    /\ oPutIdx = 1
    /\ oResult = NoResult
    /\ attempts = <<>>
    /\ queries = 0

\* commands.py:125-130: the loop is about to listen, outside command mode
InitMouthIdle ==
    /\ tts_lock = "free"
    /\ consumers = <<>>
    /\ spkPc = <<>>
    /\ mainPc = "ready"
    /\ mainLeft = 0
    /\ mainOps = 0

InitAlarmIdle ==
    /\ clock = 0
    /\ alarm_file = [exists |-> FALSE, data |-> <<>>]
    /\ dicts = <<>>
    /\ ar_active_alarms = 0
    /\ main_active_alarms = 0
    /\ alarm_threads = <<>>
    /\ workers = <<>>
    /\ cancelled = {}
    /\ everCancelled = FALSE
    /\ setLog = <<>>
    /\ almPc = "startup"

InitParseIdle ==
    /\ prsForm = <<>>
    /\ prsNow = 0
    /\ prsTarget = 0
    /\ prsDuration = 0
    /\ prsPc = "done"

InitBatteryIdle ==
    /\ monitoring = FALSE
    /\ previous_plugged_state = NoneVal
    /\ alertThreads = <<>>
    /\ pluginThreads = <<>>
    /\ batPc = "ready"
    /\ batLast = "none"
    /\ batStarts = 0
    /\ readings = 0

InitServicesIdle ==
    /\ InitMouthIdle
    /\ InitAlarmIdle
    /\ InitParseIdle
    /\ InitBatteryIdle

InitCmdIdle ==
    /\ cmdPc = "listen"
    /\ command_mode = FALSE
    /\ cmdKind = NoneVal
    /\ cmdTrace = <<>>
    /\ cmdWikiOutcome = NoneVal
    /\ cmdWaitFor = 0

NoRequest == [sent |-> FALSE, messages |-> <<>>, bearer |-> NoneVal]

InitCallIdle ==
    /\ callHistory = <<>>
    /\ callInput = <<>>
    /\ callPrompt = <<>>
    /\ callStreaming = FALSE
    /\ callKey = TRUE
    /\ callRequest = NoRequest
    /\ callOut = NoResult
    /\ callStored = FALSE
    /\ callPc = "done"

EmptyDict == [k \in {} |-> <<>>]

NoWriter == 0

\* the two modules that each load their own qa_dict from the one file
QAModules == {"brain", "save_data_locally"}

InitQAIdle ==
    /\ qa_file = EmptyDict
    /\ qa_dict = [m \in QAModules |-> EmptyDict]
    /\ qa_lock = [m \in QAModules |-> NoWriter]
    /\ wMod = <<>>
    /\ wPc = <<>>
    /\ wTmp = <<>>
    /\ wSaved = <<>>
    /\ everPersisted = {}
    /\ wTmpState = <<>>
    /\ qa_file_whole = TRUE

-----------------------------------------------------------------------------

\* Python's s[:n] for n >= 0
PyTake(s, n) == IF n >= Len(s) THEN s ELSE SubSeq(s, 1, n)

\* Python's s[:-k] for k >= 0 (s[:-0] is s[:0], the empty list)
PyDropLast(s, k) == IF k = 0 \/ k >= Len(s) THEN <<>> ELSE SubSeq(s, 1, Len(s) - k)

\* Python's s[-k:] for k >= 0 (s[-0:] is s[0:], the whole list)
PyLast(s, k) == IF k = 0 \/ k >= Len(s) THEN s ELSE SubSeq(s, Len(s) - k + 1, Len(s))

\* Python's s.rsplit(" ", 1)[0]: everything before the last space, or s itself
RSplitSpaceHead(s) ==
    LET spaces == {i \in 1..Len(s) : s[i] = " "}
    IN  IF spaces = {} THEN s
        ELSE LET last == CHOOSE i \in spaces : \A j \in spaces : j <= i
             IN  SubSeq(s, 1, last - 1)

Ellipsis == <<".", ".", ".">>

-----------------------------------------------------------------------------
(* Conversation History Manager: llm3.py / llm4.py                         *)

\* the max_length trim_history passes to simple_summarize
SummaryMaxLength == 200

\* the cap the adapters pass to trim_history
MaxMessages == 12

Turn(r, c) == [role |-> r, content |-> c]

simple_summarize(text, max_length) ==
    IF Len(text) <= max_length THEN text
    ELSE RSplitSpaceHead(PyTake(text, max_length)) \o Ellipsis

\* a trim that drops the overflow instead of summarizing it
trim_history_Dropping(history, max_messages) ==
    IF history = <<>> THEN history
    ELSE LET hasSys     == history[1].role = "system"
             non_system == IF hasSys THEN Tail(history) ELSE history
         IN  (IF hasSys THEN <<history[1]>> ELSE <<>>) \o
             (IF Len(non_system) > max_messages
              THEN PyLast(non_system, max_messages) ELSE non_system)

trim_history(history, max_messages) ==
    IF history = <<>> THEN history
    ELSE LET hasSys     == history[1].role = "system"
             non_system == IF hasSys THEN Tail(history) ELSE history
             summarized_part == PyDropLast(non_system, max_messages)
             summarized == [i \in 1..Len(summarized_part) |->
                              Turn(summarized_part[i].role,
                                   simple_summarize(summarized_part[i].content,
                                                    SummaryMaxLength))]
             trimmed_non_system ==
                 IF Len(non_system) > max_messages
                 THEN summarized \o PyLast(non_system, max_messages)
                 ELSE non_system
         IN  (IF hasSys THEN <<history[1]>> ELSE <<>>) \o trimmed_non_system

-----------------------------------------------------------------------------
(* Response Cleaner, on plain text                                         *)

Whitespace == {" ", "\n", "\t"}
Terminators == {".", "!", "?"}

RECURSIVE LStrip(_)
LStrip(s) == IF s # <<>> /\ Head(s) \in Whitespace THEN LStrip(Tail(s)) ELSE s

RECURSIVE RStrip(_)
RStrip(s) ==
    IF s # <<>> /\ s[Len(s)] \in Whitespace THEN RStrip(SubSeq(s, 1, Len(s) - 1)) ELSE s

\* Python's str.strip()
Strip(s) == RStrip(LStrip(s))

IsControl(c) == c \in {"\n", "\t"}
DropControl(s) == SelectSeq(s, LAMBDA c : ~IsControl(c))

\* re.sub(r"[ \t]{2,}", " ", s): every run of blanks becomes one space
RECURSIVE CollapseBlanks(_)
CollapseBlanks(s) ==
    IF Len(s) < 2 THEN s
    ELSE IF s[1] \in {" ", "\t"} /\ s[2] \in {" ", "\t"}
         THEN CollapseBlanks(<<" ">> \o SubSeq(s, 3, Len(s)))
         ELSE <<s[1]>> \o CollapseBlanks(Tail(s))

\* re.sub(r"\n{2,}", "\n\n", s): every run of line breaks becomes two
RECURSIVE CollapseNewlines(_)
CollapseNewlines(s) ==
    IF Len(s) < 3 THEN s
    ELSE IF s[1] = "\n" /\ s[2] = "\n" /\ s[3] = "\n"
         THEN CollapseNewlines(Tail(s))
         ELSE <<s[1]>> \o CollapseNewlines(Tail(s))

\* llm3.clean_output_parser on text that markdown renders as one paragraph of
\* plain text (letters, blanks, sentence punctuation, single line breaks): the
\* markdown and HTML passes return the text unchanged, the character filter
\* deletes everything below \x20 (line breaks and tabs included), then the text
\* is stripped and runs of blanks collapse.
clean_output_parser(raw) ==
    IF raw = NoneVal THEN <<>>
    ELSE CollapseBlanks(CollapseNewlines(Strip(DropControl(raw))))

\* llm2.clean_output_parser and llm4.clean_output_parser on the same kind of
\* text: no character filter; strip, runs of line breaks, runs of blanks
clean_output_parser2(raw) ==
    IF raw = NoneVal THEN <<>> ELSE CollapseBlanks(CollapseNewlines(Strip(raw)))

-----------------------------------------------------------------------------
(* One line of a streamed response, as the adapters' loops see it          *)

\* cleaned sentences of this length or less are not emitted mid-stream
NoiseLength == 5

LineKinds == {"empty",          \* ""
              "nonjson",        \* ": keepalive", "data: [DONE]"
              "nonobject",      \* JSON that is no object: 12, [1], "x", null
              "nochoices",      \* {"error": ...}: an object without "choices"
              "emptychoices",   \* {"choices": []}
              "nodelta",        \* {"choices": [{"finish_reason": "stop"}]}
              "nocontent",      \* {"choices": [{"delta": {"role": "assistant"}}]}
              "nullcontent",    \* {"choices": [{"delta": {"content": null}}]}
              "delta"}          \* {"choices": [{"delta": {"content": piece}}]}

Line(k, p) == [kind |-> k, piece |-> p]
DeltaLine(p) == Line("delta", p)

Skip == [act |-> "skip", exc |-> NoneVal, piece |-> <<>>]
Raise(e) == [act |-> "raise", exc |-> e, piece |-> <<>>]
Piece(p) == [act |-> "piece", exc |-> NoneVal, piece |-> p]

\* llm3 / llm3_streaming: only json.JSONDecodeError is caught per line
ParseLine3(line) ==
    CASE line.kind = "empty"        -> Skip                     \* if not line: continue
      [] line.kind = "nonjson"      -> Skip                     \* except JSONDecodeError
      [] line.kind = "nonobject"    -> Raise("AttributeError")  \* obj.get
      [] line.kind = "nochoices"    -> Skip                     \* [{}][0].get("delta", {})
      [] line.kind = "emptychoices" -> Raise("IndexError")      \* [][0]
      [] line.kind = "nodelta"      -> Skip                     \* if not delta: continue
      [] line.kind = "nocontent"    -> Piece(<<>>)              \* delta.get("content", "")
      [] line.kind = "nullcontent"  -> Raise("TypeError")       \* str += None
      [] line.kind = "delta"        -> Piece(line.piece)

\* llm4.generate: a bare except around the whole line
ParseLine4(line) ==
    IF line.kind = "delta" THEN Piece(line.piece) ELSE Skip

-----------------------------------------------------------------------------
(* Sentence segmentation of llm3_streaming                                 *)

\* first index i with s[i] a terminator and s[i+1] whitespace, or 0
FirstBoundary(s) ==
    LET B == {i \in 1..(Len(s) - 1) : s[i] \in Terminators /\ s[i + 1] \in Whitespace}
    IN  IF B = {} THEN 0 ELSE CHOOSE i \in B : \A j \in B : i <= j

\* re.split(r"([.!?][\s])", s), pairs joined: the sentence_text list
RECURSIVE SplitSentences(_)
SplitSentences(s) ==
    LET i == FirstBoundary(s)
    IN  IF i = 0 THEN <<>>
        ELSE <<SubSeq(s, 1, i + 1)>> \o SplitSentences(SubSeq(s, i + 2, Len(s)))

\* potential_sentences[-1]
RECURSIVE SplitRemainder(_)
SplitRemainder(s) ==
    LET i == FirstBoundary(s)
    IN  IF i = 0 THEN s ELSE SplitRemainder(SubSeq(s, i + 2, Len(s)))

CleanedSentences(parts) == [i \in 1..Len(parts) |-> clean_output_parser(Strip(parts[i]))]

\* a length check that lets sentences of exactly NoiseLength characters pass
Substantial_AtLeast(c) == c # <<>> /\ Len(c) >= NoiseLength

\* llm3.py:443
Substantial(c) == c # <<>> /\ Len(c) > NoiseLength

\* a segmentation that forgets to cut the emitted sentences off the buffer
SegmentPiece_KeepBuffer(buffer, sents, piece) ==
    LET buf   == buffer \o piece
        parts == SplitSentences(buf)
    IN  [buffer |-> buf,
         sentences |-> sents \o SelectSeq(CleanedSentences(parts), Substantial)]

\* llm3.py:423-451: append the piece, emit the completed sentences, keep the rest
SegmentPiece(buffer, sents, piece) ==
    LET buf   == buffer \o piece
        parts == SplitSentences(buf)
    IN  IF parts = <<>>
        THEN [buffer |-> buf, sentences |-> sents]
        ELSE [buffer |-> SplitRemainder(buf),
              sentences |-> sents \o SelectSeq(CleanedSentences(parts), Substantial)]

\* llm3.py:456-460: the rest of the buffer is the final sentence
FinishSentences(buffer, sents) ==
    IF Strip(buffer) # <<>> /\ clean_output_parser(Strip(buffer)) # <<>>
    THEN Append(sents, clean_output_parser(Strip(buffer)))
    ELSE sents

-----------------------------------------------------------------------------
(* The streaming specification: one response consumed line by line         *)

MaxDeltas == 3

TextA == <<"H", "e", "l", "l", "o", " ", "w", "o", "r", "l", "d", ".", " ", "H", "o", "w", " ", "a", "r", "e", " ", "y", "o", "u", "?">>
TextB == <<"H", "i", ".", " ", "G", "o", " ", "n", "o", "w", "!", " ", "O", "k">>
TextC == <<"A", "b", "c", " ", "d", ".", " ", " ", "D", "e", "f", "g", "?", "\n", "H", "i", "j", ".">>

StreamTexts == {TextA, TextB, TextC}

\* two lines of one paragraph: the line break is all that separates two words
TextD == <<"G", "o", " ", "u", "p", "\n", "n", "o", "w", ".">>

\* a response whose whole text comes in one delta
WholeInputs == {<<DeltaLine(t)>> : t \in {TextC, TextD}}

\* every way to cut text into n non-empty deltas
Cuts(text, n) ==
    {c \in [0..n -> 0..Len(text)] :
        /\ c[0] = 0
        /\ c[n] = Len(text)
        /\ \A i \in 1..n : c[i - 1] < c[i]}

DeltasOf(text, n, c) == [i \in 1..n |-> DeltaLine(SubSeq(text, c[i - 1] + 1, c[i]))]

CutInputs ==
    UNION {{DeltasOf(t, n, c) : c \in Cuts(t, n)} : t \in StreamTexts, n \in 1..MaxDeltas}

ExampleDeltas ==
    <<DeltaLine(<<"H", "e", "l", "l", "o">>), DeltaLine(<<" ", "w", "o", "r", "l", "d", ".">>), DeltaLine(<<" ", "H", "o", "w", " ", "a", "r", "e", " ", "y", "o", "u", "?">>)>>

InsertAt(seq, p, x) == SubSeq(seq, 1, p) \o <<x>> \o SubSeq(seq, p + 1, Len(seq))

\* the example response with one unusable line somewhere in it
OddLineInputs ==
    {InsertAt(ExampleDeltas, p, Line(k, <<>>)) :
        p \in 0..Len(ExampleDeltas), k \in LineKinds \ {"delta"}}

StreamAdapters == {"llm3_streaming", "llm3", "llm4"}

InitStream ==
    /\ InitCmdIdle
    /\ InitCallIdle
    /\ InitServicesIdle
    /\ online = TRUE
    /\ InitTtsIdle
    /\ InitOrchIdle
    /\ InitHistIdle
    /\ InitTrimIdle
    /\ InitQAIdle
    /\ \/ strAdapter = "llm3_streaming" /\ strLines \in CutInputs \cup OddLineInputs
       \/ strAdapter \in {"llm3", "llm4"} /\ strLines \in OddLineInputs \cup WholeInputs
    /\ strIdx = 1
    /\ strBuffer = <<>>
    /\ strSentences = <<>>
    /\ strRaw = <<>>
    /\ strPc = "reading"
    /\ strExc = NoneVal

\* llm3.py:412-454, one iteration
ReadLine3Streaming ==
    /\ strPc = "reading" /\ strAdapter = "llm3_streaming"
    /\ strIdx <= Len(strLines)
    /\ LET r == ParseLine3(strLines[strIdx]) IN
         \/ /\ r.act = "skip"
            /\ strIdx' = strIdx + 1
            /\ UNCHANGED <<strBuffer, strSentences, strPc, strExc>>
         \/ /\ r.act = "raise"
            /\ strPc' = "raised"
            /\ strExc' = r.exc
            /\ UNCHANGED <<strIdx, strBuffer, strSentences>>
         \/ /\ r.act = "piece"
            /\ LET seg == SegmentPiece(strBuffer, strSentences, r.piece) IN
                 /\ strBuffer' = seg.buffer
                 /\ strSentences' = seg.sentences
            /\ strIdx' = strIdx + 1
            /\ UNCHANGED <<strPc, strExc>>
    /\ UNCHANGED <<strAdapter, strLines, strRaw>>
    /\ UNCHANGED <<varsTrim, varsQA, varsHist, varsTts, varsOrch, varsCall, varsCmd, varsServices>>

\* llm3.py:456-463, after the loop
Finish3Streaming ==
    /\ strPc = "reading" /\ strAdapter = "llm3_streaming"
    /\ strIdx > Len(strLines)
    /\ strSentences' = FinishSentences(strBuffer, strSentences)
    /\ strPc' = "done"
    /\ UNCHANGED <<strAdapter, strLines, strIdx, strBuffer, strRaw, strExc>>
    /\ UNCHANGED <<varsTrim, varsQA, varsHist, varsTts, varsOrch, varsCall, varsCmd, varsServices>>

\* llm3.py:299-311, one iteration
ReadLine3 ==
    /\ strPc = "reading" /\ strAdapter = "llm3"
    /\ strIdx <= Len(strLines)
    /\ LET r == ParseLine3(strLines[strIdx]) IN
         \/ /\ r.act = "skip"
            /\ strIdx' = strIdx + 1
            /\ UNCHANGED <<strRaw, strPc, strExc>>
         \/ /\ r.act = "raise"
            /\ strPc' = "raised"
            /\ strExc' = r.exc
            /\ UNCHANGED <<strIdx, strRaw>>
         \/ /\ r.act = "piece"
            /\ strRaw' = strRaw \o r.piece
            /\ strIdx' = strIdx + 1
            /\ UNCHANGED <<strPc, strExc>>
    /\ UNCHANGED <<strAdapter, strLines, strBuffer, strSentences>>
    /\ UNCHANGED <<varsTrim, varsQA, varsHist, varsTts, varsOrch, varsCall, varsCmd, varsServices>>

\* llm4.py:231-242, one iteration
ReadLine4 ==
    /\ strPc = "reading" /\ strAdapter = "llm4"
    /\ strIdx <= Len(strLines)
    /\ LET r == ParseLine4(strLines[strIdx]) IN
         \/ /\ r.act = "skip"
            /\ UNCHANGED strRaw
         \/ /\ r.act = "piece"
            /\ strRaw' = strRaw \o r.piece
    /\ strIdx' = strIdx + 1
    /\ UNCHANGED <<strAdapter, strLines, strBuffer, strSentences, strPc, strExc>>
    /\ UNCHANGED <<varsTrim, varsQA, varsHist, varsTts, varsOrch, varsCall, varsCmd, varsServices>>

\* the cleaner each adapter's module defines
CleanerOf(adapter, raw) ==
    IF adapter = "llm4" THEN clean_output_parser2(raw) ELSE clean_output_parser(raw)

\* llm3.py:314 / llm4.py:245: the accumulated text is cleaned
FinishRaw ==
    /\ strPc = "reading" /\ strAdapter \in {"llm3", "llm4"}
    /\ strIdx > Len(strLines)
    /\ strRaw' = CleanerOf(strAdapter, strRaw)
    /\ strPc' = "done"
    /\ UNCHANGED <<strAdapter, strLines, strIdx, strBuffer, strSentences, strExc>>
    /\ UNCHANGED <<varsTrim, varsQA, varsHist, varsTts, varsOrch, varsCall, varsCmd, varsServices>>

NextStream ==
    \/ ReadLine3Streaming
    \/ Finish3Streaming
    \/ ReadLine3
    \/ ReadLine4
    \/ FinishRaw

SpecStream == InitStream /\ [][NextStream]_vars

-----------------------------------------------------------------------------
(* Claims about the streamed response                                      *)

RECURSIVE Flatten(_)
Flatten(ss) == IF ss = <<>> THEN <<>> ELSE Head(ss) \o Flatten(Tail(ss))

\* the text the response carries: its deltas, concatenated
StreamText ==
    Flatten([i \in 1..Len(strLines) |->
               IF strLines[i].kind = "delta" THEN strLines[i].piece ELSE <<>>])

\* the sentences of a text, read off the whole text at once: a sentence ends at
\* each terminator that is followed by whitespace, and the rest is the last one
Boundaries(text) ==
    {i \in 1..(Len(text) - 1) : text[i] \in Terminators /\ text[i + 1] \in Whitespace}

NthBoundary(text, k) ==
    IF k = 0 THEN -1
    ELSE CHOOSE i \in Boundaries(text) :
            Cardinality({j \in Boundaries(text) : j < i}) = k - 1

CompletedSentences(text) ==
    [k \in 1..Cardinality(Boundaries(text)) |->
        clean_output_parser(
            Strip(SubSeq(text, NthBoundary(text, k - 1) + 2, NthBoundary(text, k))))]

LastSentence(text) ==
    clean_output_parser(
        Strip(SubSeq(text, NthBoundary(text, Cardinality(Boundaries(text))) + 2,
                     Len(text))))

ExpectedSentences(text) ==
    SelectSeq(CompletedSentences(text), LAMBDA c : Len(c) > NoiseLength)
      \o (IF LastSentence(text) # <<>> THEN <<LastSentence(text)>> ELSE <<>>)

StreamFinished == strAdapter = "llm3_streaming" /\ strPc = "done"

\* what llm3_streaming emitted before the loop ended, the closing rest excluded
EmittedInLoop ==
    IF LastSentence(StreamText) # <<>>
    THEN SubSeq(strSentences, 1, Len(strSentences) - 1)
    ELSE strSentences

WasEmitted(c) == \E i \in 1..Len(EmittedInLoop) : EmittedInLoop[i] = c

\* C17 as stated: a completed sentence is discarded only when its cleaned text
\* is shorter than 5 characters; with 5 or more characters it is emitted.
C17_FiveCharactersEmitted ==
    StreamFinished =>
        \A k \in 1..Len(CompletedSentences(StreamText)) :
            Len(CompletedSentences(StreamText)[k]) >= 5
                => WasEmitted(CompletedSentences(StreamText)[k])

\* C17 as the code has it: a completed sentence is emitted exactly when its
\* cleaned text has more than 5 characters; one of 5 characters or fewer is
\* discarded.
C17_MoreThanFiveEmitted ==
    StreamFinished =>
        \A k \in 1..Len(CompletedSentences(StreamText)) :
            Len(CompletedSentences(StreamText)[k]) > NoiseLength
                <=> WasEmitted(CompletedSentences(StreamText)[k])

\* a response with a completed sentence of exactly 5 characters, dropped, and
\* one of 6 characters, emitted
C17_Witness ==
    /\ StreamFinished
    /\ \E k \in 1..Len(CompletedSentences(StreamText)) :
          /\ Len(CompletedSentences(StreamText)[k]) = NoiseLength
          /\ ~WasEmitted(CompletedSentences(StreamText)[k])
    /\ \E k \in 1..Len(CompletedSentences(StreamText)) :
          /\ Len(CompletedSentences(StreamText)[k]) = NoiseLength + 1
          /\ WasEmitted(CompletedSentences(StreamText)[k])

\* C8 as stated: a malformed or oddly shaped line is skipped; it never aborts
\* the response and the text of the other lines is kept.
C8_OddLineSkipped ==
    /\ strPc # "raised"
    /\ (strPc = "done" /\ strAdapter = "llm3_streaming"
          => strSentences = ExpectedSentences(StreamText))
    /\ (strPc = "done" /\ strAdapter \in {"llm3", "llm4"}
          => strRaw = CleanerOf(strAdapter, StreamText))

\* the words of a text: its maximal runs of characters that are not whitespace
RECURSIVE Words(_)
Words(s) ==
    LET t == LStrip(s)
        W == {i \in 1..Len(t) : t[i] \in Whitespace}
    IN  IF t = <<>> THEN <<>>
        ELSE IF W = {} THEN <<t>>
        ELSE LET i == CHOOSE x \in W : \A y \in W : x <= y
             IN  <<SubSeq(t, 1, i - 1)>> \o Words(SubSeq(t, i + 1, Len(t)))

\* the lengths of the maximal runs of line breaks of a text, in order
RECURSIVE NewlineRuns(_, _)
NewlineRuns(s, run) ==
    IF s = <<>> THEN (IF run > 0 THEN <<run>> ELSE <<>>)
    ELSE IF Head(s) = "\n" THEN NewlineRuns(Tail(s), run + 1)
    ELSE (IF run > 0 THEN <<run>> ELSE <<>>) \o NewlineRuns(Tail(s), 0)

CappedRuns(s) ==
    [i \in 1..Len(NewlineRuns(Strip(s), 0)) |->
        IF NewlineRuns(Strip(s), 0)[i] >= 2 THEN 2 ELSE 1]

\* C20 as stated: the cleaned reply keeps the line structure of the text: a
\* line break or tab between two words is still whitespace, so the reply has
\* the words of the text, none joined to its neighbour, and every run of line
\* breaks is still there, as one line break or as one blank line.
C20_LineStructureKept ==
    (strPc = "done" /\ strAdapter \in {"llm3", "llm4"}) =>
        /\ Words(strRaw) = Words(StreamText)
        /\ NewlineRuns(strRaw, 0) = CappedRuns(StreamText)

\* C9: however the text is cut into deltas, llm3_streaming emits the completed
\* sentences of the concatenated text, each once and in order (those of at most
\* NoiseLength characters excepted), followed by the unterminated rest; the
\* deltas "Hello", " world.", " How are you?" give "Hello world." and
\* "How are you?".
C9_SentencesOfConcatenation ==
    StreamFinished =>
        /\ strSentences = ExpectedSentences(StreamText)
        /\ (StreamText = TextA => strSentences = <<<<"H", "e", "l", "l", "o", " ", "w", "o", "r", "l", "d", ".">>, <<"H", "o", "w", " ", "a", "r", "e", " ", "y", "o", "u", "?">>>>)

C9_Witness ==
    /\ StreamFinished
    /\ strLines = ExampleDeltas
    /\ strSentences = <<<<"H", "e", "l", "l", "o", " ", "w", "o", "r", "l", "d", ".">>, <<"H", "o", "w", " ", "a", "r", "e", " ", "y", "o", "u", "?">>>>

-----------------------------------------------------------------------------
(* Q&A store: "with qa_lock: qa_dict[q] = a; save_qa_data(qa_file_path, qa_dict)" *)

NumWriters == 2

Writers == 1..NumWriters

\* the question a writer inserts (distinct per writer) and its answer
QuestionOf(w) == w
AnswerOf(w) == <<"a">>
StoredQuestion == 0

DictPut(dct, k, v) == [x \in DOMAIN dct \cup {k} |-> IF x = k THEN v ELSE dct[x]]

\* brain() uses brain.qa_lock and brain.qa_dict; llm1..llm4 and the Wikipedia
\* handler import qa_lock and qa_dict from save_data_locally
LockOf(w) == wMod[w]

\* load_qa_data at import: every module starts from the file's content
InitQA ==
    /\ InitCmdIdle
    /\ InitCallIdle
    /\ InitServicesIdle
    /\ online = TRUE
    /\ InitTtsIdle
    /\ InitOrchIdle
    /\ InitHistIdle
    /\ InitTrimIdle
    /\ InitStreamIdle
    /\ qa_file \in {EmptyDict, DictPut(EmptyDict, StoredQuestion, <<"a">>)}
    /\ qa_dict = [m \in QAModules |-> qa_file]
    /\ qa_lock = [m \in QAModules |-> NoWriter]
    /\ wMod \in [Writers -> QAModules]
    /\ wPc = [w \in Writers |-> "start"]
    /\ wTmp = [w \in Writers |-> NoneVal]
    /\ wSaved = [w \in Writers |-> FALSE]
    /\ everPersisted = DOMAIN qa_file
    /\ wTmpState = [w \in Writers |-> "none"]
    /\ qa_file_whole = TRUE

\* with qa_lock:
AcquireQaLock(w) ==
    /\ wPc[w] = "start"
    /\ qa_lock[LockOf(w)] = NoWriter
    /\ qa_lock' = [qa_lock EXCEPT ![LockOf(w)] = w]
    /\ wPc' = [wPc EXCEPT ![w] = "locked"]
    /\ UNCHANGED <<qa_file, qa_dict, wMod, wTmp, wSaved, everPersisted,
                   wTmpState, qa_file_whole>>

\* qa_dict[user_input] = reply
InsertQa(w) ==
    /\ wPc[w] = "locked"
    /\ qa_dict' = [qa_dict EXCEPT ![LockOf(w)] = DictPut(@, QuestionOf(w), AnswerOf(w))]
    /\ wPc' = [wPc EXCEPT ![w] = "inserted"]
    /\ UNCHANGED <<qa_file, qa_lock, wMod, wTmp, wSaved, everPersisted,
                   wTmpState, qa_file_whole>>

\* save_qa_data: tempfile.NamedTemporaryFile(dir=file_path.parent, delete=False,
\* suffix=".tmp") creates a file of its own for this call; json.dump has
\* started to write it
CreateTmpFile(w) ==
    /\ wPc[w] = "inserted"
    /\ wTmp' = [wTmp EXCEPT ![w] = qa_dict[LockOf(w)]]
    /\ wTmpState' = [wTmpState EXCEPT ![w] = "partial"]
    /\ wPc' = [wPc EXCEPT ![w] = "dumping"]
    /\ UNCHANGED <<qa_file, qa_dict, qa_lock, wMod, wSaved, everPersisted, qa_file_whole>>

\* save_qa_data: json.dump(qa_dict, tmp_file) has written everything and the
\* with block has closed the temporary file
WriteTmpFile(w) ==
    /\ wPc[w] = "dumping"
    /\ wTmpState' = [wTmpState EXCEPT ![w] = "complete"]
    /\ wPc' = [wPc EXCEPT ![w] = "written"]
    /\ UNCHANGED <<qa_file, qa_dict, qa_lock, wMod, wTmp, wSaved, everPersisted,
                   qa_file_whole>>

\* the replacement is made while the temporary file is still being written
ReadyToReplace_WhileDumping(w) == wPc[w] \in {"dumping", "written"}

\* save_qa_data: os.replace / os.rename come after the with block of the
\* temporary file
ReadyToReplace(w) == wPc[w] = "written"

\* save_qa_data: os.replace(tmp_path, file_path), or os.rename when the file
\* did not exist: the path now names what the temporary file holds
ReplaceFile(w) ==
    /\ ReadyToReplace(w)
    /\ qa_file' = wTmp[w]
    /\ qa_file_whole' = (wTmpState[w] = "complete")
    /\ everPersisted' = everPersisted \cup DOMAIN wTmp[w]
    /\ wTmp' = [wTmp EXCEPT ![w] = NoneVal]
    /\ wTmpState' = [wTmpState EXCEPT ![w] = "none"]
    /\ wSaved' = [wSaved EXCEPT ![w] = TRUE]
    /\ wPc' = [wPc EXCEPT ![w] = "saved"]
    /\ UNCHANGED <<qa_dict, qa_lock, wMod>>

\* save_qa_data: an exception while creating, writing or replacing is caught.
\* tmp_path is assigned only after json.dump: a failure after it unlinks the
\* temporary file, a failure before it leaves the temporary file behind.
\* Either way the with qa_lock block is left
SaveFails(w) ==
    /\ wPc[w] \in {"inserted", "dumping", "written"}
    /\ IF wPc[w] = "written"
       THEN /\ wTmp' = [wTmp EXCEPT ![w] = NoneVal]
            /\ wTmpState' = [wTmpState EXCEPT ![w] = "none"]
       ELSE UNCHANGED <<wTmp, wTmpState>>
    /\ wPc' = [wPc EXCEPT ![w] = "saved"]
    /\ UNCHANGED <<qa_file, qa_dict, qa_lock, wMod, wSaved, everPersisted, qa_file_whole>>

\* leaving the with block
ReleaseQaLock(w) ==
    /\ wPc[w] = "saved"
    /\ qa_lock' = [qa_lock EXCEPT ![LockOf(w)] = NoWriter]
    /\ wPc' = [wPc EXCEPT ![w] = "done"]
    /\ UNCHANGED <<qa_file, qa_dict, wMod, wTmp, wSaved, everPersisted,
                   wTmpState, qa_file_whole>>

\* the process is killed while some save is under way: every thread stops
\* where it is, files stay as they are
ProcessCrash ==
    /\ \E w \in Writers : wPc[w] \in {"inserted", "dumping", "written"}
    /\ wPc' = [w \in Writers |-> "crashed"]
    /\ UNCHANGED <<qa_file, qa_dict, qa_lock, wMod, wTmp, wSaved, everPersisted,
                   wTmpState, qa_file_whole>>

NextQA ==
    /\ \/ \E w \in Writers :
             \/ AcquireQaLock(w)
             \/ InsertQa(w)
             \/ CreateTmpFile(w)
             \/ WriteTmpFile(w)
             \/ ReplaceFile(w)
             \/ SaveFails(w)
             \/ ReleaseQaLock(w)
       \/ ProcessCrash
    /\ UNCHANGED <<varsTrim, varsStream, varsHist, varsTts, varsOrch, varsCall, varsCmd, varsServices>>

SpecQA == InitQA /\ [][NextQA]_vars

\* C3 as stated: once two inserts of distinct questions by any of the writers
\* have completed (their saves replaced the file), the file holds both
\* questions, and a question the file once held is never removed from it.
C3_NoLostUpdate ==
    /\ \A w \in Writers :
          wPc[w] = "done" /\ wSaved[w] => QuestionOf(w) \in DOMAIN qa_file
    /\ everPersisted \subseteq DOMAIN qa_file

\* a save that ended without replacing the file
SaveFailedNow(w) == wPc[w] \in {"inserted", "dumping", "written"} /\ wPc'[w] = "saved" /\ ~wSaved'[w]

\* C19: whatever step a save fails or the process dies at, and however the
\* saves of several threads interleave, the file at the Q&A path always holds
\* one complete JSON document; its content changes only in the single step
\* that replaces it by a completely written temporary file; and a save that
\* fails, or a crash, leaves the content as it was.
C19_AtomicReplace ==
    /\ [](qa_file_whole)
    /\ [][ /\ qa_file' # qa_file =>
                 \E w \in Writers : /\ wPc[w] = "written" /\ wTmpState[w] = "complete"
                                    /\ qa_file' = wTmp[w]
           /\ (\E w \in Writers : SaveFailedNow(w)) => qa_file' = qa_file
           /\ (\A w \in Writers : wPc'[w] = "crashed") => qa_file' = qa_file ]_vars

\* one save failed while its temporary file was half written, another thread's
\* save replaced the file, and the file is whole
C19_Witness ==
    /\ qa_file_whole
    /\ \E w1, w2 \in Writers :
          /\ wPc[w1] \in {"saved", "done"} /\ ~wSaved[w1] /\ wTmpState[w1] = "partial"
          /\ wSaved[w2]
          /\ QuestionOf(w2) \in DOMAIN qa_file

-----------------------------------------------------------------------------
(* The provider adapters, as functions of the history they are given and   *)
(* of what the provider does.  Each returns the history it leaves behind   *)
(* and its outcome: a returned value or the exception that leaves it.      *)

JoinSpace(ss) ==
    Flatten([i \in 1..Len(ss) |-> IF i = 1 THEN ss[i] ELSE <<" ">> \o ss[i]])

Returned(v) == [kind |-> "return", exc |-> NoneVal, isNone |-> FALSE, val |-> v]
ReturnedNone == [kind |-> "return", exc |-> NoneVal, isNone |-> TRUE, val |-> <<>>]
Raised(e) == [kind |-> "raise", exc |-> e, isNone |-> FALSE, val |-> <<>>]
\* the call has not come back: it sits in a read that nothing ends
Blocked == [kind |-> "blocked", exc |-> NoneVal, isNone |-> FALSE, val |-> <<>>]

\* qa |-> whether the call stored (question, answer) in the Q&A store
Effect(h, o, stored, a) == [hist |-> h, out |-> o, stored |-> stored, answer |-> a]

\* what a provider does with a request
ApiRaises == [kind |-> "raise", text |-> <<>>]
ApiReplies(t) == [kind |-> "reply", text |-> t]

NetPostRaises == [kind |-> "post_raises", lines |-> <<>>, broken |-> FALSE, textReadable |-> FALSE]
NetStream(ls) == [kind |-> "stream", lines |-> ls, broken |-> FALSE, textReadable |-> TRUE]
\* the provider accepts the connection and never answers; requests.post is
\* called without a timeout (llm3.py:290-295, 399-404; llm4.py:227)
NetSilent == [kind |-> "silent", lines |-> <<>>, broken |-> FALSE, textReadable |-> FALSE]
\* the connection breaks after the lines ls: iter_lines raises a RequestException
NetBroken(ls, readable) ==
    [kind |-> "stream", lines |-> ls, broken |-> TRUE, textReadable |-> readable]

ErrorMessage == <<"F", "a", "i", "l", "e", "d", " ", "t", "o", " ", "G", "e", "t", " ", "R", "e", "s", "p", "o", "n", "s", "e">>

\* re.split(r"[.!?]+", text)
RECURSIVE SplitOnTerminators(_)
SplitOnTerminators(s) ==
    LET T == {i \in 1..Len(s) : s[i] \in Terminators}
    IN  IF T = {} THEN <<s>>
        ELSE LET i == CHOOSE x \in T : \A y \in T : x <= y
                 N == {j \in (i + 1)..Len(s) : s[j] \notin Terminators}
                 j == IF N = {} THEN Len(s) + 1 ELSE CHOOSE x \in N : \A y \in N : x <= y
             IN  <<SubSeq(s, 1, i - 1)>> \o SplitOnTerminators(SubSeq(s, j, Len(s)))

\* llm2.split_into_sentences: "." is put back on every sentence but the last
split_into_sentences2(text) ==
    LET parts == SelectSeq([i \in 1..Len(SplitOnTerminators(text)) |->
                               Strip(SplitOnTerminators(text)[i])],
                           LAMBDA x : x # <<>>)
    IN  [i \in 1..Len(parts) |->
            IF i < Len(parts) THEN parts[i] \o <<".">> ELSE parts[i]]

\* llm2.py:290-324 (llm2, 230-264, differs in speaking the reply and returning it)
llm2_streaming(conv, user_input, token, api) ==
    IF ~token THEN Effect(conv, Raised("RuntimeError"), FALSE, <<>>)
    ELSE LET c1 == Append(conv, Turn("user", user_input))
         IN  IF api.kind = "raise"
             THEN Effect(c1, Raised("HfHubHTTPError"), FALSE, <<>>)
             ELSE LET reply == clean_output_parser2(api.text)
                  IN  Effect(Append(c1, Turn("assistant", reply)),
                             Returned(split_into_sentences2(reply)), TRUE, reply)

llm2(conv, user_input, token, api) ==
    LET e == llm2_streaming(conv, user_input, token, api)
    IN  IF e.out.kind = "raise" THEN e
        ELSE Effect(e.hist, Returned(e.answer), TRUE, e.answer)

\* a system-prompt step that always inserts
EnsureSystemTurn_AlwaysInsert(history, system_prompt) ==
    <<Turn("system", system_prompt)>> \o history

\* llm3.py:370-374 / llm4.py:209-213
EnsureSystemTurn(history, system_prompt) ==
    IF system_prompt = <<>> THEN history
    ELSE IF history = <<>> \/ history[1].role # "system"
    THEN <<Turn("system", system_prompt)>> \o history
    ELSE [history EXCEPT ![1] = Turn("system", system_prompt)]

\* the for loop of llm3_streaming over all the lines: llm3.py:412-454
RECURSIVE ConsumeLines3Streaming(_, _, _)
ConsumeLines3Streaming(lines, buffer, sents) ==
    IF lines = <<>> THEN [exc |-> NoneVal, buffer |-> buffer, sentences |-> sents]
    ELSE LET r == ParseLine3(Head(lines))
         IN  IF r.act = "raise" THEN [exc |-> r.exc, buffer |-> buffer, sentences |-> sents]
             ELSE IF r.act = "skip" THEN ConsumeLines3Streaming(Tail(lines), buffer, sents)
             ELSE LET seg == SegmentPiece(buffer, sents, r.piece)
                  IN  ConsumeLines3Streaming(Tail(lines), seg.buffer, seg.sentences)

\* the for loop of llm3: llm3.py:298-311
RECURSIVE ConsumeLines3(_, _)
ConsumeLines3(lines, raw) ==
    IF lines = <<>> THEN [exc |-> NoneVal, raw |-> raw]
    ELSE LET r == ParseLine3(Head(lines))
         IN  IF r.act = "raise" THEN [exc |-> r.exc, raw |-> raw]
             ELSE IF r.act = "skip" THEN ConsumeLines3(Tail(lines), raw)
             ELSE ConsumeLines3(Tail(lines), raw \o r.piece)

\* the for loop of generate: llm4.py:230-242
RECURSIVE ConsumeLines4(_, _)
ConsumeLines4(lines, raw) ==
    IF lines = <<>> THEN raw
    ELSE LET r == ParseLine4(Head(lines))
         IN  ConsumeLines4(Tail(lines), IF r.act = "piece" THEN raw \o r.piece ELSE raw)

\* the except branch of llm3 / llm3_streaming (llm3.py:326-327, 475-477): when
\* requests.post itself raised, the local name response is unbound and the
\* handler raises UnboundLocalError; when the stream broke, response.text is
\* read from a half-consumed response and may raise in its turn
RequestFailure3(net, errorValue) ==
    IF net.kind = "post_raises" THEN Raised("UnboundLocalError")
    ELSE IF net.textReadable THEN Returned(errorValue)
    ELSE Raised("RequestException")

\* llm3.py:367-477; the caller has already appended the user turn
llm3_streaming(history, user_input, system_prompt, net) ==
    LET h1 == EnsureSystemTurn(history, system_prompt)
    IN  IF net.kind = "silent" THEN Effect(h1, Blocked, FALSE, <<>>)
        ELSE IF net.kind = "post_raises"
        THEN Effect(h1, RequestFailure3(net, <<ErrorMessage>>), FALSE, <<>>)
        ELSE LET c == ConsumeLines3Streaming(net.lines, <<>>, <<>>)
             IN  IF c.exc # NoneVal THEN Effect(h1, Raised(c.exc), FALSE, <<>>)
                 ELSE IF net.broken
                 THEN Effect(h1, RequestFailure3(net, <<ErrorMessage>>), FALSE, <<>>)
                 ELSE LET sents == FinishSentences(c.buffer, c.sentences)
                          full_response == JoinSpace(sents)
                      IN  Effect(Append(h1, Turn("assistant", full_response)),
                                 Returned(sents), TRUE, full_response)

\* llm3.py:258-327
llm3(history, user_input, system_prompt, net) ==
    LET h1 == EnsureSystemTurn(history, system_prompt)
    IN  IF net.kind = "silent" THEN Effect(h1, Blocked, FALSE, <<>>)
        ELSE IF net.kind = "post_raises"
        THEN Effect(h1, RequestFailure3(net, ErrorMessage), FALSE, <<>>)
        ELSE LET c == ConsumeLines3(net.lines, <<>>)
             IN  IF c.exc # NoneVal THEN Effect(h1, Raised(c.exc), FALSE, <<>>)
                 ELSE IF net.broken
                 THEN Effect(h1, RequestFailure3(net, ErrorMessage), FALSE, <<>>)
                 ELSE LET clean_completion == clean_output_parser(c.raw)
                      IN  Effect(Append(h1, Turn("assistant", clean_completion)),
                                 Returned(clean_completion), TRUE, clean_completion)

\* llm3.py:493-496, 513-516 and llm4.py:278-286: append, trim, write back
AppendAndTrim(history, text) ==
    trim_history(Append(history, Turn("user", text)), MaxMessages)

\* llm3.py:500-519
llm3_text_streaming(history, text, net) ==
    llm3_streaming(AppendAndTrim(history, text), text, SystemPrompt, net)

\* llm3.py:480-497
llm3_text(history, text, net) ==
    llm3(AppendAndTrim(history, text), text, SystemPrompt, net)

\* llm4.py:205-250: generate works on the list it is given
generate(prompt, net) ==
    LET p1 == EnsureSystemTurn(prompt, SystemPrompt)
    IN  IF net.kind = "silent" THEN Effect(p1, Blocked, FALSE, <<>>)
        ELSE IF net.kind = "post_raises" \/ net.broken
        THEN Effect(p1, Raised("RequestException"), FALSE, <<>>)
        ELSE LET clean_completion == clean_output_parser2(ConsumeLines4(net.lines, <<>>))
             IN  Effect(Append(p1, Turn("assistant", clean_completion)),
                        Returned(clean_completion), TRUE, clean_completion)

\* llm4.py:277-304: generate is handed CHAT_HISTORY.copy(), so the module-level
\* list keeps only what llm4 itself appended
llm4(history, text, net) ==
    LET h1 == AppendAndTrim(history, text)
        g  == generate(h1, net)
    IN  Effect(h1, g.out, g.stored, g.answer)

\* llm1.py:38-104: a fresh history per call, the reply is spoken, nothing is
\* returned
llm1(user_input, api) ==
    IF api.kind = "raise" THEN Effect(<<>>, Raised("ProviderError"), FALSE, <<>>)
    ELSE LET assistant_reply == Strip(api.text)
         IN  Effect(<<Turn("system", SystemPrompt), Turn("user", user_input),
                      Turn("assistant", assistant_reply)>>,
                    ReturnedNone, TRUE, assistant_reply)

\* with qa_lock: qa_dict[user_input] = reply; save_qa_data(...), run by one thread
StoreAnswer(e, question) ==
    IF e.stored
    THEN /\ qa_dict' = [qa_dict EXCEPT !["save_data_locally"] = DictPut(@, question, e.answer)]
         /\ qa_file' = DictPut(qa_dict["save_data_locally"], question, e.answer)
         /\ everPersisted' = everPersisted \cup DOMAIN qa_dict["save_data_locally"] \cup {question}
    ELSE UNCHANGED <<qa_dict, qa_file, everPersisted>>

-----------------------------------------------------------------------------
(* The history specification: any sequence of calls of the adapters that   *)
(* keep a module-level history, and of the "clear" command of their        *)
(* interactive loops                                                       *)

MaxCalls == 7

HistUserInputs == {<<"h", "i">>}

ReplyText == <<"F", "i", "n", "e", ".", " ", "A", "n", "d", " ", "y", "o", "u", "?">>

Llm2Apis == {ApiRaises, ApiReplies(ReplyText)}

OddLines == <<DeltaLine(<<"H", "e", "l", "l", "o">>), Line("emptychoices", <<>>)>>

Llm3Nets == {NetPostRaises,
             NetStream(ExampleDeltas),
             NetStream(OddLines),
             NetBroken(<<DeltaLine(<<"H", "e", "l", "l", "o">>)>>, TRUE),
             NetBroken(<<DeltaLine(<<"H", "e", "l", "l", "o">>)>>, FALSE)}

Llm4Nets == {NetPostRaises, NetStream(ExampleDeltas)}

InitHist ==
    /\ InitCmdIdle
    /\ InitCallIdle
    /\ InitServicesIdle
    /\ online = TRUE
    /\ InitTtsIdle
    /\ InitOrchIdle
    /\ InitTrimIdle
    /\ InitStreamIdle
    /\ InitQAIdle
    /\ InitHistIdle

CallLlm2 ==
    /\ calls < MaxCalls
    /\ \E text \in HistUserInputs, token \in BOOLEAN, api \in Llm2Apis, streaming \in BOOLEAN :
         LET e == IF streaming THEN llm2_streaming(llm2_conversation, text, token, api)
                  ELSE llm2(llm2_conversation, text, token, api)
         IN  /\ llm2_conversation' = e.hist
             /\ StoreAnswer(e, text)
    /\ calls' = calls + 1
    /\ UNCHANGED <<llm3_CHAT_HISTORY, llm4_CHAT_HISTORY, lastLlm4>>
    /\ UNCHANGED <<qa_lock, wMod, wPc, wTmp, wSaved, wTmpState, qa_file_whole>>
    /\ UNCHANGED <<varsTrim, varsStream, varsTts, varsOrch, varsCall, varsCmd, varsServices>>

CallLlm3Text ==
    /\ calls < MaxCalls
    /\ \E text \in HistUserInputs, net \in Llm3Nets, streaming \in BOOLEAN :
         LET e == IF streaming THEN llm3_text_streaming(llm3_CHAT_HISTORY, text, net)
                  ELSE llm3_text(llm3_CHAT_HISTORY, text, net)
         IN  /\ llm3_CHAT_HISTORY' = e.hist
             /\ StoreAnswer(e, text)
    /\ calls' = calls + 1
    /\ UNCHANGED <<llm2_conversation, llm4_CHAT_HISTORY, lastLlm4>>
    /\ UNCHANGED <<qa_lock, wMod, wPc, wTmp, wSaved, wTmpState, qa_file_whole>>
    /\ UNCHANGED <<varsTrim, varsStream, varsTts, varsOrch, varsCall, varsCmd, varsServices>>

CallLlm4 ==
    /\ calls < MaxCalls
    /\ \E text \in HistUserInputs, net \in Llm4Nets :
         LET e == llm4(llm4_CHAT_HISTORY, text, net)
         IN  /\ llm4_CHAT_HISTORY' = e.hist
             /\ lastLlm4' = [called |-> TRUE, text |-> text, out |-> e.out]
             /\ StoreAnswer(e, text)
    /\ calls' = calls + 1
    /\ UNCHANGED <<llm2_conversation, llm3_CHAT_HISTORY>>
    /\ UNCHANGED <<qa_lock, wMod, wPc, wTmp, wSaved, wTmpState, qa_file_whole>>
    /\ UNCHANGED <<varsTrim, varsStream, varsTts, varsOrch, varsCall, varsCmd, varsServices>>

\* llm3.py:541-542: "clear" / "reset"
ClearHistory3 ==
    /\ llm3_CHAT_HISTORY # <<>>
    /\ llm3_CHAT_HISTORY' = <<>>
    /\ UNCHANGED <<llm2_conversation, llm4_CHAT_HISTORY, calls, lastLlm4>>
    /\ UNCHANGED <<varsTrim, varsStream, varsQA, varsTts, varsOrch, varsCall, varsCmd, varsServices>>

\* llm4.py:327-329: "clear" / "reset"
ClearHistory4 ==
    /\ llm4_CHAT_HISTORY # <<>>
    /\ llm4_CHAT_HISTORY' = <<>>
    /\ lastLlm4' = NoCall
    /\ UNCHANGED <<llm2_conversation, llm3_CHAT_HISTORY, calls>>
    /\ UNCHANGED <<varsTrim, varsStream, varsQA, varsTts, varsOrch, varsCall, varsCmd, varsServices>>

NextHist ==
    \/ CallLlm2
    \/ CallLlm3Text
    \/ CallLlm4
    \/ ClearHistory3
    \/ ClearHistory4

SpecHist == InitHist /\ [][NextHist]_vars

SystemTurns(h) == {i \in 1..Len(h) : h[i].role = "system"}

AtMostOneLeadingSystemTurn(h) == SystemTurns(h) \subseteq {1}

\* C10: after any sequence of calls of llm2, llm2_streaming, llm3_text,
\* llm3_text_streaming and llm4, failed ones and history clears included, each
\* module-level history holds at most one system turn, and only at index 0.
C10_OneSystemTurnFirst ==
    /\ AtMostOneLeadingSystemTurn(llm2_conversation)
    /\ AtMostOneLeadingSystemTurn(llm3_CHAT_HISTORY)
    /\ AtMostOneLeadingSystemTurn(llm4_CHAT_HISTORY)

\* C12: after llm4(text) returns, the module-level CHAT_HISTORY holds the
\* assistant's reply as the turn following the user turn for text.
C12_ReplyKeptInHistory ==
    (lastLlm4.called /\ lastLlm4.out.kind = "return") =>
        /\ Len(llm4_CHAT_HISTORY) >= 2
        /\ llm4_CHAT_HISTORY[Len(llm4_CHAT_HISTORY) - 1] = Turn("user", lastLlm4.text)
        /\ llm4_CHAT_HISTORY[Len(llm4_CHAT_HISTORY)] = Turn("assistant", lastLlm4.out.val)

\* every user turn of h is followed by an assistant turn
EveryUserTurnAnswered(h) ==
    \A i \in 1..Len(h) :
        h[i].role = "user" => (i < Len(h) /\ h[i + 1].role = "assistant")

\* the step is a call of llm2_streaming that raised
FailedLlm2Streaming ==
    \E text \in HistUserInputs, token \in BOOLEAN, api \in Llm2Apis :
        LET e == llm2_streaming(llm2_conversation, text, token, api)
        IN  /\ calls' = calls + 1
            /\ e.out.kind = "raise"
            /\ llm2_conversation' = e.hist

\* the step is a call of llm3_text_streaming that raised or returned the
\* error result of llm3_streaming
FailedLlm3TextStreaming ==
    \E text \in HistUserInputs, net \in Llm3Nets :
        LET e == llm3_text_streaming(llm3_CHAT_HISTORY, text, net)
        IN  /\ calls' = calls + 1
            /\ ~e.stored
            /\ llm3_CHAT_HISTORY' = e.hist

\* C30: a call of llm2_streaming or llm3_text_streaming that fails (raises,
\* or returns the error result) leaves the module-level history as it was
\* before the call, so that in each of the two histories every user turn is
\* followed by an assistant turn.
C30_FailedCallKeepsHistory ==
    /\ [][/\ FailedLlm2Streaming => llm2_conversation' = llm2_conversation
          /\ FailedLlm3TextStreaming => llm3_CHAT_HISTORY' = llm3_CHAT_HISTORY]_vars
    /\ [](EveryUserTurnAnswered(llm2_conversation) /\ EveryUserTurnAnswered(llm3_CHAT_HISTORY))

\* the llm3 history has been through the summarizing branch of trim_history
\* and holds the dangling user turn of a failed call
C10_Witness ==
    /\ Len(llm3_CHAT_HISTORY) > MaxMessages + 1
    /\ llm3_CHAT_HISTORY[1].role = "system"
    /\ \E i \in 1..(Len(llm3_CHAT_HISTORY) - 1) :
          llm3_CHAT_HISTORY[i].role = "user" /\ llm3_CHAT_HISTORY[i + 1].role = "user"

-----------------------------------------------------------------------------
(* llm_response_streaming (LLM/llm_search.py) and the streaming TTS it     *)
(* drives: one caller thread making queries one after the other, and the   *)
(* daemon consumer thread of core/mouth.py or core/mouth2.py               *)

MaxQueries == 2

Providers == <<"llm2_streaming", "llm3_text_streaming", "llm1">>

ExceptionNames ==
    {"RuntimeError", "HfHubHTTPError", "UnboundLocalError", "RequestException",
     "AttributeError", "IndexError", "TypeError", "ProviderError"}

\* a handler that lets the missing-key RuntimeError through
Absorbed_ExceptConfig(exc) == exc \in ExceptionNames \ {"RuntimeError"}

\* llm_search.py:68, 77: except Exception
Absorbed(exc) == exc \in ExceptionNames

\* a join that only looks at the queue
JoinUnblocked_WhenQueueEmpty == tts_queue = <<>>

\* queue.Queue.join(): returns once every put has had its task_done
JoinUnblocked == unfinished_tasks = 0

Llm1Apis == {ApiRaises, ApiReplies(ReplyText)}

InitOrch ==
    /\ InitCmdIdle
    /\ InitCallIdle
    /\ InitServicesIdle
    /\ InitTrimIdle
    /\ InitStreamIdle
    /\ InitQAIdle
    /\ InitHistIdle
    /\ online \in BOOLEAN
    /\ InitTtsIdle
    /\ InitOrchIdle

\* an exception raised inside the try block of level oLevel: the first two
\* levels hand over to the next provider, the third has no handler
ExceptionAtLevel(exc) ==
    IF oLevel < 3 /\ Absorbed(exc)
    THEN /\ oLevel' = oLevel + 1
         /\ oPc' = "call"
         /\ oResult' = oResult
    ELSE /\ oLevel' = oLevel
         /\ oPc' = "returned"
         /\ oResult' = Raised(exc)

StartQuery ==
    /\ oPc \in {"idle", "returned"}
    /\ queries < MaxQueries
    /\ oInput' \in HistUserInputs
    /\ oPc' = "call"
    /\ oLevel' = 1
    /\ oSentences' = NoResult
    /\ oPutIdx' = 1
    /\ oResult' = NoResult
    /\ attempts' = <<>>
    /\ queries' = queries + 1
    /\ uttered' = <<>>
    /\ UNCHANGED <<online, tts_queue, unfinished_tasks, is_tts_running, consumerPc,
                   consumerSentence>>
    /\ UNCHANGED <<varsTrim, varsStream, varsQA, varsHist, varsCall, varsCmd, varsServices>>

\* sentences = <provider>(user_input) at llm_search.py:64, 73, 81; llm1 speaks
\* its reply itself (llm1.py:98) before it returns
CallProvider ==
    /\ oPc = "call"
    /\ \E token \in BOOLEAN, api \in Llm2Apis \cup Llm1Apis, net \in Llm3Nets \cup {NetSilent} :
         LET e == CASE oLevel = 1 -> llm2_streaming(llm2_conversation, oInput, token, api)
                    [] oLevel = 2 -> llm3_text_streaming(llm3_CHAT_HISTORY, oInput, net)
                    [] OTHER      -> llm1(oInput, api)
         IN  /\ llm2_conversation' = IF oLevel = 1 THEN e.hist ELSE llm2_conversation
             /\ llm3_CHAT_HISTORY' = IF oLevel = 2 THEN e.hist ELSE llm3_CHAT_HISTORY
             /\ StoreAnswer(e, oInput)
             /\ attempts' = Append(attempts, [name |-> Providers[oLevel], out |-> e.out])
             /\ uttered' = IF oLevel = 3 /\ e.out.kind = "return"
                           THEN Append(uttered, [text |-> e.answer, heard |-> TRUE])
                           ELSE uttered
             /\ IF e.out.kind = "blocked"
                THEN /\ oPc' = "blocked"
                     /\ UNCHANGED <<oLevel, oResult, oSentences>>
                ELSE IF e.out.kind = "raise"
                THEN /\ ExceptionAtLevel(e.out.exc)
                     /\ UNCHANGED oSentences
                ELSE /\ oSentences' = e.out
                     /\ oPc' = "clear"
                     /\ UNCHANGED <<oLevel, oResult>>
    /\ UNCHANGED <<oInput, oPutIdx, queries>>
    /\ UNCHANGED <<online, tts_queue, unfinished_tasks, is_tts_running, consumerPc,
                   consumerSentence>>
    /\ UNCHANGED <<llm4_CHAT_HISTORY, calls, lastLlm4, qa_lock, wMod, wPc, wTmp, wSaved,
                   wTmpState, qa_file_whole>>
    /\ UNCHANGED <<varsTrim, varsStream, varsCall, varsCmd, varsServices>>

\* speak_streaming, mouth.py:270-275: one turn of the loop that drops the backlog
ClearBacklog ==
    /\ oPc = "clear"
    /\ IF tts_queue # <<>>
       THEN /\ tts_queue' = Tail(tts_queue)
            /\ unfinished_tasks' = unfinished_tasks - 1
            /\ UNCHANGED oPc
       ELSE /\ oPc' = "start"
            /\ UNCHANGED <<tts_queue, unfinished_tasks>>
    /\ UNCHANGED <<oLevel, oInput, oSentences, oPutIdx, oResult, attempts, queries>>
    /\ UNCHANGED <<online, is_tts_running, consumerPc, consumerSentence, uttered>>
    /\ UNCHANGED <<varsTrim, varsStream, varsQA, varsHist, varsCall, varsCmd, varsServices>>

\* start_tts_consumer (mouth.py:229-235), then the for statement of
\* speak_streaming (mouth.py:278): iterating over None raises TypeError
StartTtsConsumer ==
    /\ oPc = "start"
    /\ is_tts_running' = TRUE
    /\ consumerPc' = IF is_tts_running THEN consumerPc ELSE "idle"
    /\ IF oSentences.isNone
       THEN /\ ExceptionAtLevel("TypeError")
            /\ UNCHANGED oPutIdx
       ELSE /\ oPc' = "put"
            /\ oPutIdx' = 1
            /\ UNCHANGED <<oLevel, oResult>>
    /\ UNCHANGED <<oInput, oSentences, attempts, queries>>
    /\ UNCHANGED <<online, tts_queue, unfinished_tasks, consumerSentence, uttered>>
    /\ UNCHANGED <<varsTrim, varsStream, varsQA, varsHist, varsCall, varsCmd, varsServices>>

\* mouth.py:278-280: one turn of the for loop
PutSentence ==
    /\ oPc = "put"
    /\ oPutIdx <= Len(oSentences.val)
    /\ IF Strip(oSentences.val[oPutIdx]) # <<>>
       THEN /\ tts_queue' = Append(tts_queue, oSentences.val[oPutIdx])
            /\ unfinished_tasks' = unfinished_tasks + 1
       ELSE UNCHANGED <<tts_queue, unfinished_tasks>>
    /\ oPutIdx' = oPutIdx + 1
    /\ UNCHANGED <<oPc, oLevel, oInput, oSentences, oResult, attempts, queries>>
    /\ UNCHANGED <<online, is_tts_running, consumerPc, consumerSentence, uttered>>
    /\ UNCHANGED <<varsTrim, varsStream, varsQA, varsHist, varsCall, varsCmd, varsServices>>

\* wait_for_tts_completion() and return " ".join(sentences)
WaitForTtsCompletion ==
    /\ oPc = "put"
    /\ oPutIdx > Len(oSentences.val)
    /\ JoinUnblocked
    /\ oResult' = Returned(JoinSpace(oSentences.val))
    /\ oPc' = "returned"
    /\ UNCHANGED <<oLevel, oInput, oSentences, oPutIdx, attempts, queries>>
    /\ UNCHANGED varsTts
    /\ UNCHANGED <<varsTrim, varsStream, varsQA, varsHist, varsCall, varsCmd, varsServices>>

\* _tts_consumer, mouth.py:200-208: get, and task_done at once for a blank
\* sentence (a get that times out changes nothing)
ConsumerGet ==
    /\ consumerPc = "idle"
    /\ tts_queue # <<>>
    /\ tts_queue' = Tail(tts_queue)
    /\ IF Strip(Head(tts_queue)) # <<>>
       THEN /\ consumerPc' = "speaking"
            /\ consumerSentence' = Head(tts_queue)
            /\ UNCHANGED unfinished_tasks
       ELSE /\ unfinished_tasks' = unfinished_tasks - 1
            /\ UNCHANGED <<consumerPc, consumerSentence>>
    /\ UNCHANGED <<online, is_tts_running, uttered>>
    /\ UNCHANGED varsOrch
    /\ UNCHANGED <<varsTrim, varsStream, varsQA, varsHist, varsCall, varsCmd, varsServices>>

\* the speech ends.  mouth.py: _speak_async prints its own errors, so
\* task_done always follows (206-208).  mouth2.py: an error of the engine
\* lands in "except Exception: continue" (159-161), past task_done
ConsumerSpeak ==
    /\ consumerPc = "speaking"
    /\ \E ok \in BOOLEAN :
         IF ok \/ online
         THEN /\ uttered' = Append(uttered, [text |-> consumerSentence, heard |-> ok])
              /\ unfinished_tasks' = unfinished_tasks - 1
         ELSE UNCHANGED <<uttered, unfinished_tasks>>
    /\ consumerPc' = "idle"
    /\ consumerSentence' = <<>>
    /\ UNCHANGED <<online, tts_queue, is_tts_running>>
    /\ UNCHANGED varsOrch
    /\ UNCHANGED <<varsTrim, varsStream, varsQA, varsHist, varsCall, varsCmd, varsServices>>

NextOrch ==
    \/ StartQuery
    \/ CallProvider
    \/ ClearBacklog
    \/ StartTtsConsumer
    \/ PutSentence
    \/ WaitForTtsCompletion
    \/ ConsumerGet
    \/ ConsumerSpeak

SpecOrch == InitOrch /\ [][NextOrch]_vars

\* both threads keep running: whatever step is possible is eventually taken
SpecOrchLive == SpecOrch /\ WF_vars(NextOrch)

CallReturned == oPc = "returned" /\ oResult.kind = "return"

AttemptNames == [i \in 1..Len(attempts) |-> attempts[i].name]

UtteredTexts == [i \in 1..Len(uttered) |-> uttered[i].text]

\* C1: when llm2_streaming raises, llm3_text_streaming raises and llm1
\* completes, the call returns llm1's answer text without raising, the first
\* two providers having been attempted once each, in order, before the third.
C1_ThirdProviderAnswerReturned ==
    (/\ oPc \in {"clear", "start", "put", "returned"}
     /\ Len(attempts) = 3
     /\ attempts[3].out.kind = "return")
    => /\ AttemptNames = Providers
       /\ attempts[1].out.kind = "raise"
       /\ attempts[2].out.kind = "raise"
       /\ oPc = "returned" => oResult = Returned(Strip(ReplyText))

\* C2: an error-shaped result of llm3_streaming (the one-element list with the
\* "Failed to Get Response" message) counts as a failure: the next provider is
\* invoked and the message is neither spoken nor returned.
C2_ErrorResultIsFailure ==
    /\ ~ \E i \in 1..Len(uttered) : uttered[i].text = ErrorMessage
    /\ oPc = "returned" =>
          /\ oResult # Returned(ErrorMessage)
          /\ \A i \in 1..Len(attempts) :
                attempts[i].out = Returned(<<ErrorMessage>>) => i < Len(attempts)

\* C14: a provider whose HTTP call never gets a response ends as a provider
\* failure and the next provider is tried: llm_response_streaming is never
\* blocked forever on one unresponsive provider.
C14_NeverBlockedForever == (oPc = "blocked") ~> (oPc # "blocked")

\* C6: whenever the call returns normally, the queue is empty, the consumer
\* is not in the middle of an utterance, and every non-empty sentence handed
\* to speak_streaming has been taken and its speech has ended, in order.
C6_SpokenBeforeReturn ==
    CallReturned =>
        /\ tts_queue = <<>>
        /\ consumerPc # "speaking"
        /\ UtteredTexts = SelectSeq(oSentences.val, LAMBDA x : Strip(x) # <<>>)

\* a second query has returned after the consumer spoke several sentences
C6_Witness ==
    /\ CallReturned
    /\ queries >= 2
    /\ Len(uttered) >= 2
    /\ consumerPc = "idle"

ConfigErrorAtFirst ==
    /\ Len(attempts) >= 1
    /\ attempts[1].name = "llm2_streaming"
    /\ attempts[1].out = Raised("RuntimeError")

\* C7 as stated: the missing-key error of llm2_streaming is not absorbed: it
\* reaches the caller and no further provider is invoked.
C7_ConfigErrorPropagates ==
    ConfigErrorAtFirst =>
        /\ Len(attempts) = 1
        /\ oPc = "returned"
        /\ oResult = Raised("RuntimeError")

\* C7 as the code has it: the missing-key error of llm2_streaming is absorbed
\* like any other exception: the call goes on to invoke llm3_text_streaming,
\* and does not end before it has done so.
C7_ConfigErrorAbsorbed ==
    ConfigErrorAtFirst =>
        /\ oLevel >= 2
        /\ Len(attempts) >= 2 => attempts[2].name = "llm3_text_streaming"
        /\ oPc = "returned" => Len(attempts) >= 2

\* the key was missing, llm3 answered instead and the call returned its text
C7_Witness ==
    /\ ConfigErrorAtFirst
    /\ CallReturned
    /\ Len(attempts) = 2
    /\ attempts[2].out.kind = "return"

-----------------------------------------------------------------------------
(* One direct call llm3(history, user_input, system_prompt) or             *)
(* llm3_streaming(...) on a list the caller owns                           *)

OtherPrompt == <<"B", "o", "t">>

OtherInput == <<"y", "o">>

OtherReply == <<"Y", "e", "s">>

CallInputs == HistUserInputs \cup {OtherInput}

CallPrompts == {SystemPrompt, <<>>}

\* what the caller may hand over: nothing, the new turn already appended (as
\* llm3_text does), or an earlier exchange with or without the new turn
CallerHistories ==
    LET S  == Turn("system", OtherPrompt)
        U0 == Turn("user", OtherInput)
        A0 == Turn("assistant", OtherReply)
    IN  {<<>>, <<S>>, <<S, U0, A0>>, <<U0, A0>>}
        \cup {<<Turn("user", u)>> : u \in CallInputs}
        \cup {<<S, U0, A0, Turn("user", u)>> : u \in CallInputs}

\* the answer of the provider to a request without credentials: a JSON error
\* object, which has no "choices"
NetRejected == NetStream(<<Line("nochoices", <<>>)>>)

\* what the provider can do with the request, given the key it carries
ProviderBehaviours(key) ==
    IF key THEN Llm3Nets ELSE {NetPostRaises, NetRejected}

\* llm3.py:376-395: headers and payload; os.getenv gives None for an unset key
Request3(history, system_prompt, key) ==
    [sent |-> TRUE,
     messages |-> EnsureSystemTurn(history, system_prompt),
     bearer |-> IF key THEN "key" ELSE NoneVal]

InitCall ==
    /\ InitCmdIdle
    /\ InitCallIdle
    /\ InitServicesIdle
    /\ online = TRUE
    /\ InitTtsIdle
    /\ InitOrchIdle
    /\ InitHistIdle
    /\ InitTrimIdle
    /\ InitStreamIdle
    /\ InitQAIdle

\* the caller sets up the arguments and the environment of the call
PrepareCall ==
    /\ callPc = "done"
    /\ callRequest = NoRequest
    /\ callHistory' \in CallerHistories
    /\ callInput' \in CallInputs
    /\ callPrompt' \in CallPrompts
    /\ callStreaming' \in BOOLEAN
    /\ callKey' \in BOOLEAN
    /\ callPc' = "ready"
    /\ UNCHANGED <<callRequest, callOut, callStored>>
    /\ UNCHANGED <<varsTrim, varsStream, varsQA, varsHist, varsTts, varsOrch, varsCmd, varsServices>>

\* llm3.py:258-327 / 367-477
CallLlm3 ==
    /\ callPc = "ready"
    /\ \E net \in ProviderBehaviours(callKey) :
         LET e == IF callStreaming
                  THEN llm3_streaming(callHistory, callInput, callPrompt, net)
                  ELSE llm3(callHistory, callInput, callPrompt, net)
         IN  /\ callRequest' = Request3(callHistory, callPrompt, callKey)
             /\ callHistory' = e.hist
             /\ callOut' = e.out
             /\ callStored' = e.stored
             /\ StoreAnswer(e, callInput)
    /\ callPc' = "done"
    /\ UNCHANGED <<callInput, callPrompt, callStreaming, callKey>>
    /\ UNCHANGED <<qa_lock, wMod, wPc, wTmp, wSaved, wTmpState, qa_file_whole>>
    /\ UNCHANGED <<varsTrim, varsStream, varsHist, varsTts, varsOrch, varsCmd, varsServices>>

NextCall ==
    \/ PrepareCall
    \/ CallLlm3

SpecCall == InitCall /\ [][NextCall]_vars

\* the call came back with a reply (not with the error text, not raising)
CallSucceeded == callPc = "done" /\ callRequest.sent /\ callStored

\* C16: with OPENROUTER_API_KEY unset, llm3 and llm3_streaming raise a
\* configuration error before any request is issued, as llm2 and
\* llm2_streaming do with HF_TOKEN unset.
C16_MissingKeyRaisesBeforeRequest ==
    (callPc = "done" /\ callOut.kind # "none" /\ ~callKey) =>
        /\ callOut = Raised("RuntimeError")
        /\ ~callRequest.sent

\* C11: after a successful llm3 / llm3_streaming call the caller's history
\* ends with the user turn for user_input followed by the assistant turn with
\* the cleaned reply, and the request carried that user turn.
C11_HistoryEndsWithExchange ==
    CallSucceeded =>
        /\ Len(callHistory) >= 2
        /\ callHistory[Len(callHistory) - 1] = Turn("user", callInput)
        /\ callHistory[Len(callHistory)].role = "assistant"
        /\ \E i \in 1..Len(callRequest.messages) :
              callRequest.messages[i] = Turn("user", callInput)

-----------------------------------------------------------------------------
(* The command loop (interface/commands.py) down to the two query paths:   *)
(* the Wikipedia handler, which falls back to llm_response, and brain(),   *)
(* which asks the Q&A store, the local matcher mind() and its own          *)
(* Wikipedia search.  llm_response runs as in the orchestrator above.      *)

InputKinds ==
    {"None", "confirmation", "bye", "wake", "sleep", "wikipedia", "question", "other"}

WikiOutcomes ==
    {"empty_prompt", "cache_hit", "summary", "PageError", "DisambiguationError",
     "WikipediaException", "Exception"}

BrainOutcomes == {"exact", "partial", "mind_answer", "mind_empty", "exception"}

WikiSummary == <<"W", "i", "k", "i", ".">>

\* a handler that hands every outcome to the language models
WikiFallsBackToLlm_Always(outcome) == outcome \in WikiOutcomes

\* wiki_search.py:131-175: the except clauses that call llm_response
WikiFallsBackToLlm(outcome) ==
    outcome \in {"PageError", "WikipediaException", "Exception"}

\* with qa_lock: qa_dict[...] = ...; save_qa_data(...) in the module mod
StoreIn(mod, question, answer) ==
    /\ qa_dict' = [qa_dict EXCEPT ![mod] = DictPut(@, question, answer)]
    /\ qa_file' = DictPut(qa_dict[mod], question, answer)
    /\ everPersisted' = everPersisted \cup DOMAIN qa_dict[mod] \cup {question}

InitCommand ==
    /\ InitCmdIdle
    /\ InitCallIdle
    /\ InitServicesIdle
    /\ online = TRUE
    /\ InitTtsIdle
    /\ InitOrchIdle
    /\ InitHistIdle
    /\ InitTrimIdle
    /\ InitStreamIdle
    /\ InitQAIdle

\* commands.py:130-182: one turn of the while loop up to process_command
Listen ==
    /\ cmdPc = "listen"
    /\ \E kind \in InputKinds :
         /\ cmdKind' = kind
         /\ cmdTrace' = <<>>
         /\ cmdWikiOutcome' = NoneVal
         /\ IF kind \in {"None", "confirmation"}
            THEN UNCHANGED <<cmdPc, command_mode>>
            ELSE IF kind = "bye"
            THEN cmdPc' = "exited" /\ UNCHANGED command_mode
            ELSE IF ~command_mode
            THEN /\ command_mode' = (kind = "wake")
                 /\ UNCHANGED cmdPc
            ELSE IF kind = "sleep"
            THEN command_mode' = FALSE /\ UNCHANGED cmdPc
            ELSE cmdPc' = "process_command" /\ UNCHANGED command_mode
    /\ UNCHANGED cmdWaitFor
    /\ UNCHANGED <<varsTrim, varsStream, varsQA, varsHist, varsTts, varsOrch, varsCall, varsServices>>

\* commands.py:185-613: the router; only the Wikipedia branch (512-520) and the
\* final else (612-613) lead to a query path
ProcessCommand ==
    /\ cmdPc = "process_command"
    /\ cmdPc' = CASE cmdKind = "wikipedia" -> "wiki_search"
                  [] cmdKind = "question"  -> "brain"
                  [] OTHER                 -> "listen"
    /\ UNCHANGED <<command_mode, cmdKind, cmdTrace, cmdWikiOutcome, cmdWaitFor>>
    /\ UNCHANGED <<varsTrim, varsStream, varsQA, varsHist, varsTts, varsOrch, varsCall, varsServices>>

\* integrations/wiki_search.py:45-175 up to the call of llm_response
WikiSearch ==
    /\ cmdPc = "wiki_search"
    /\ \E outcome \in WikiOutcomes, question \in HistUserInputs :
         /\ cmdWikiOutcome' = outcome
         /\ IF WikiFallsBackToLlm(outcome)
            THEN /\ queries < MaxQueries
                 /\ cmdTrace' = cmdTrace \o <<"wikipedia", "llm_response">>
                 /\ cmdPc' = "llm_response"
                 /\ cmdWaitFor' = queries + 1
            ELSE /\ cmdTrace' = Append(cmdTrace, "wikipedia")
                 /\ cmdPc' = "listen"
                 /\ UNCHANGED cmdWaitFor
         /\ IF outcome = "summary"
            THEN StoreIn("save_data_locally", question, WikiSummary)
            ELSE UNCHANGED <<qa_dict, qa_file, everPersisted>>
    /\ UNCHANGED <<command_mode, cmdKind>>
    /\ UNCHANGED <<qa_lock, wMod, wPc, wTmp, wSaved, wTmpState, qa_file_whole>>
    /\ UNCHANGED <<varsTrim, varsStream, varsHist, varsTts, varsOrch, varsCall, varsServices>>

\* wiki_search.py:140, 164, 175: llm_response(search_prompt) is entered
LlmResponse ==
    /\ cmdPc = "llm_response"
    /\ queries < cmdWaitFor
    /\ StartQuery

\* llm_response is over.  An exception leaves the except clause it was raised
\* in, wiki_search, process_command and command, none of which has a handler
\* around the call; main.py:109-113 prints it and the program ends
LlmResponseEnds ==
    /\ cmdPc = "llm_response"
    /\ queries = cmdWaitFor
    /\ oPc = "returned"
    /\ cmdPc' = IF oResult.kind = "raise" THEN "crashed" ELSE "listen"
    /\ UNCHANGED <<command_mode, cmdKind, cmdTrace, cmdWikiOutcome, cmdWaitFor>>
    /\ UNCHANGED <<varsTrim, varsStream, varsQA, varsHist, varsTts, varsOrch, varsCall, varsServices>>

\* core/brain.py:296-348 with brain.py's own wiki_search (190-269) and
\* google_search (272-293); speak is taken not to raise
Brain ==
    /\ cmdPc = "brain"
    /\ \E outcome \in BrainOutcomes, wiki \in WikiOutcomes, question \in HistUserInputs :
         LET searched == <<"brain.wiki_search">>
                         \o (IF wiki \in {"PageError", "WikipediaException", "Exception"}
                             THEN <<"google_search">> ELSE <<>>)
         IN  /\ cmdTrace' =
                  CASE outcome \in {"exact", "partial"} -> <<"qa_dict">>
                    [] outcome = "mind_answer" -> <<"qa_dict", "mind">>
                    [] outcome = "mind_empty"  -> <<"qa_dict", "mind">> \o searched
                    [] OTHER                   -> <<"qa_dict">> \o searched
             /\ IF outcome = "mind_answer"
                THEN StoreIn("brain", question, ReplyText)
                ELSE IF outcome \in {"mind_empty", "exception"} /\ wiki = "summary"
                THEN StoreIn("brain", question, WikiSummary)
                ELSE UNCHANGED <<qa_dict, qa_file, everPersisted>>
    /\ cmdPc' = "listen"
    /\ UNCHANGED <<command_mode, cmdKind, cmdWikiOutcome, cmdWaitFor>>
    /\ UNCHANGED <<qa_lock, wMod, wPc, wTmp, wSaved, wTmpState, qa_file_whole>>
    /\ UNCHANGED <<varsTrim, varsStream, varsHist, varsTts, varsOrch, varsCall, varsServices>>

NextCommand ==
    \/ Listen
    \/ ProcessCommand
    \/ WikiSearch
    \/ LlmResponse
    \/ LlmResponseEnds
    \/ Brain
    \/ CallProvider
    \/ ClearBacklog
    \/ StartTtsConsumer
    \/ PutSentence
    \/ WaitForTtsCompletion
    \/ ConsumerGet
    \/ ConsumerSpeak

SpecCommand == InitCommand /\ [][NextCommand]_vars

TraceHas(name) == \E i \in 1..Len(cmdTrace) : cmdTrace[i] = name

\* C13: a single failed query never ends the assistant: when the language
\* model fallback fails, the command loop goes on to listen for the next input.
C13_LoopSurvivesFailedQuery ==
    (/\ Len(attempts) = 3
     /\ \A i \in 1..3 : attempts[i].out.kind = "raise"
     /\ cmdWaitFor = queries)
    => cmdPc # "crashed"

-----------------------------------------------------------------------------
(* Inputs of the trim specification                                        *)

MaxTurns == 3
MaxCap == 2

\* contents around the summary boundary
TxtShort   == <<"h", "i">>
TxtAtLimit == Rep("a", SummaryMaxLength)
TxtWords   == Rep("a", 100) \o <<" ">> \o Rep("b", SummaryMaxLength - 80)
TxtNoSpace == Rep("a", SummaryMaxLength + 1)
TxtLateSpace == Rep("a", SummaryMaxLength - 2) \o <<" ", "b", "b">>

TrimTexts == {TxtShort, TxtAtLimit, TxtWords, TxtNoSpace, TxtLateSpace}

RoleAt(i) == IF i % 2 = 1 THEN "user" ELSE "assistant"

NonSystemTurns(n) ==
    {[i \in 1..n |-> Turn(RoleAt(i), cs[i])] : cs \in [1..n -> TrimTexts]}

TrimHistories ==
    UNION {NonSystemTurns(n) \cup
           {<<Turn("system", SystemPrompt)>> \o h : h \in NonSystemTurns(n)}
           : n \in 0..MaxTurns}

InitTrim ==
    /\ InitCmdIdle
    /\ InitCallIdle
    /\ InitServicesIdle
    /\ online = TRUE
    /\ InitTtsIdle
    /\ InitOrchIdle
    /\ InitHistIdle
    /\ trimIn \in TrimHistories
    /\ trimCap \in 0..MaxCap
    /\ trimOut1 = <<>>
    /\ trimOut2 = <<>>
    /\ trimPc = "start"
    /\ InitStreamIdle
    /\ InitQAIdle

TrimOnce ==
    /\ trimPc = "start"
    /\ trimOut1' = trim_history(trimIn, trimCap)
    /\ trimPc' = "once"
    /\ UNCHANGED <<trimIn, trimCap, trimOut2>>
    /\ UNCHANGED <<varsStream, varsQA, varsHist, varsTts, varsOrch, varsCall, varsCmd, varsServices>>

TrimTwice ==
    /\ trimPc = "once"
    /\ trimOut2' = trim_history(trimOut1, trimCap)
    /\ trimPc' = "twice"
    /\ UNCHANGED <<trimIn, trimCap, trimOut1>>
    /\ UNCHANGED <<varsStream, varsQA, varsHist, varsTts, varsOrch, varsCall, varsCmd, varsServices>>

NextTrim == TrimOnce \/ TrimTwice

SpecTrim == InitTrim /\ [][NextTrim]_vars

-----------------------------------------------------------------------------
(* Claims about trim_history                                               *)

LeadingSystem(h) == h # <<>> /\ h[1].role = "system"

NonSystemCount(h) == Cardinality({i \in 1..Len(h) : h[i].role # "system"})

TrimOverflows ==
    /\ trimPc # "start"
    /\ LeadingSystem(trimIn)
    /\ NonSystemCount(trimIn) > trimCap

\* C4 as stated: a history of one system turn and N > max_messages other turns
\* is trimmed to exactly 1 + max_messages turns.
C4_TrimmedToCap == TrimOverflows => Len(trimOut1) = 1 + trimCap

\* C4 amended: trim_history drops nothing.  The result has exactly 1 + N turns:
\* the system turn first, then the N turns in order with their roles, the last
\* max_messages of them unchanged and (for max_messages >= 1) every older one
\* cut to at most 200 + 3 characters.
C4_TrimKeepsEveryTurn ==
    TrimOverflows =>
        /\ Len(trimOut1) = Len(trimIn)
        /\ trimOut1[1] = trimIn[1]
        /\ \A i \in 2..Len(trimIn) :
              /\ trimOut1[i].role = trimIn[i].role
              /\ (i > Len(trimIn) - trimCap => trimOut1[i] = trimIn[i])
              /\ (trimCap >= 1 /\ i <= Len(trimIn) - trimCap =>
                    Len(trimOut1[i].content) <= SummaryMaxLength + Len(Ellipsis))

C4_Witness ==
    /\ TrimOverflows
    /\ trimCap >= 1
    /\ \E i \in 2..Len(trimIn) : trimOut1[i] # trimIn[i]

\* C5 as stated: trim_history(trim_history(h, k), k) = trim_history(h, k).
C5_TrimIdempotent == trimPc = "twice" => trimOut2 = trimOut1

\* C18: after any number of llm3_text, llm3_text_streaming or llm4 calls the
\* number of non-system turns in CHAT_HISTORY stays within a fixed bound set by
\* max_messages = 12 (here: the cap, plus the reply appended after the trim).
C18_HistoryBounded ==
    /\ NonSystemCount(llm3_CHAT_HISTORY) <= MaxMessages + 1
    /\ NonSystemCount(llm4_CHAT_HISTORY) <= MaxMessages + 1

-----------------------------------------------------------------------------
(* The speech module as its threads see it: speak() on the main thread and *)
(* on the monitor threads, the consumer threads that start_tts_consumer    *)
(* creates, and the main thread's calls of the streaming interface.        *)
(* online selects mouth.py, otherwise mouth2.py.                           *)

MaxConsumers == 2
MaxMouthOps == 3
MaxSentences == 2

ConsumerIds == 1..MaxConsumers

\* the threads besides the main one that call speak():
\* BatteryMonitor.battery_alert and BatteryMonitor.check_plugin_status
MonitorThreads == {"battery_alert", "check_plugin_status"}

MouthSentence == <<"O", "k">>

\* everything the speech threads leave alone
varsBesidesMouth == <<varsTrim, varsStream, varsQA, varsHist, varsOrch, varsCall, varsCmd,
                      varsAlarm, varsParse, varsBattery>>

InitMouth ==
    /\ InitCmdIdle
    /\ InitCallIdle
    /\ InitOrchIdle
    /\ InitHistIdle
    /\ InitTrimIdle
    /\ InitStreamIdle
    /\ InitQAIdle
    /\ InitTtsIdle
    /\ online \in BOOLEAN
    /\ tts_lock = "free"
    /\ consumers = [c \in ConsumerIds |-> "unborn"]
    /\ spkPc = [t \in MonitorThreads |-> "idle"]
    /\ mainPc = "ready"
    /\ mainLeft = 0
    /\ mainOps = 0
    /\ InitAlarmIdle
    /\ InitParseIdle
    /\ InitBatteryIdle

\* speak() takes the lock for the whole utterance in mouth.py; mouth2.speak
\* takes no lock
SpeakTakesLock == online

RunningConsumers == {c \in ConsumerIds : consumers[c] \in {"check", "get", "speaking"}}

\* the utterances under way: who is inside _speak_async / runAndWait
Speaking ==
    {<<"consumer", c>> : c \in {x \in ConsumerIds : consumers[x] = "speaking"}}
    \cup {<<"speak", t>> : t \in {x \in MonitorThreads : spkPc[x] = "speaking"}}
    \cup (IF mainPc = "speak" THEN {<<"speak", "main">>} ELSE {})

\* speak(text) on a monitor thread: with _tts_lock (mouth.py:176)
MonitorSpeak(t) ==
    /\ spkPc[t] = "idle"
    /\ SpeakTakesLock => tts_lock = "free"
    /\ tts_lock' = IF SpeakTakesLock THEN t ELSE tts_lock
    /\ spkPc' = [spkPc EXCEPT ![t] = "speaking"]
    /\ UNCHANGED <<consumers, mainPc, mainLeft, mainOps>>
    /\ UNCHANGED <<online, tts_queue, unfinished_tasks, is_tts_running, consumerPc,
                   consumerSentence, uttered>>
    /\ UNCHANGED varsBesidesMouth

\* the utterance of a monitor thread ends and the lock is released
MonitorSpeakEnds(t) ==
    /\ spkPc[t] = "speaking"
    /\ tts_lock' = IF SpeakTakesLock THEN "free" ELSE tts_lock
    /\ spkPc' = [spkPc EXCEPT ![t] = "idle"]
    /\ UNCHANGED <<consumers, mainPc, mainLeft, mainOps>>
    /\ UNCHANGED <<online, tts_queue, unfinished_tasks, is_tts_running, consumerPc,
                   consumerSentence, uttered>>
    /\ UNCHANGED varsBesidesMouth

\* speak(text) on the main thread
MainSpeak ==
    /\ mainPc = "ready" /\ mainOps < MaxMouthOps
    /\ SpeakTakesLock => tts_lock = "free"
    /\ tts_lock' = IF SpeakTakesLock THEN "main" ELSE tts_lock
    /\ mainPc' = "speak"
    /\ mainOps' = mainOps + 1
    /\ UNCHANGED <<consumers, spkPc, mainLeft>>
    /\ UNCHANGED <<online, tts_queue, unfinished_tasks, is_tts_running, consumerPc,
                   consumerSentence, uttered>>
    /\ UNCHANGED varsBesidesMouth

MainSpeakEnds ==
    /\ mainPc = "speak"
    /\ tts_lock' = IF SpeakTakesLock THEN "free" ELSE tts_lock
    /\ mainPc' = "ready"
    /\ UNCHANGED <<consumers, spkPc, mainLeft, mainOps>>
    /\ UNCHANGED <<online, tts_queue, unfinished_tasks, is_tts_running, consumerPc,
                   consumerSentence, uttered>>
    /\ UNCHANGED varsBesidesMouth

\* the thread start_tts_consumer creates when the flag is down
NewConsumer == CHOOSE c \in ConsumerIds : consumers[c] = "unborn"

\* with _tts_lock: if not _is_tts_running: _is_tts_running = True; Thread(...).start()
StartConsumerBody ==
    /\ tts_lock = "free"
    /\ is_tts_running \/ \E c \in ConsumerIds : consumers[c] = "unborn"
    /\ is_tts_running' = TRUE
    /\ consumers' = IF is_tts_running THEN consumers
                    ELSE [consumers EXCEPT ![NewConsumer] = "check"]

\* start_tts_consumer() called on its own
MainStartConsumer ==
    /\ mainPc = "ready" /\ mainOps < MaxMouthOps
    /\ StartConsumerBody
    /\ mainOps' = mainOps + 1
    /\ UNCHANGED <<tts_lock, spkPc, mainPc, mainLeft>>
    /\ UNCHANGED <<online, tts_queue, unfinished_tasks, consumerPc,
                   consumerSentence, uttered>>
    /\ UNCHANGED varsBesidesMouth

\* stop_tts_consumer(): with _tts_lock: _is_tts_running = False
MainStopConsumer ==
    /\ mainPc = "ready" /\ mainOps < MaxMouthOps
    /\ tts_lock = "free"
    /\ is_tts_running' = FALSE
    /\ mainOps' = mainOps + 1
    /\ UNCHANGED <<tts_lock, consumers, spkPc, mainPc, mainLeft>>
    /\ UNCHANGED <<online, tts_queue, unfinished_tasks, consumerPc,
                   consumerSentence, uttered>>
    /\ UNCHANGED varsBesidesMouth

\* speak_streaming(sentences) is entered with 1..MaxSentences sentences
MainSpeakStreaming ==
    /\ mainPc = "ready" /\ mainOps < MaxMouthOps
    /\ \E n \in 1..MaxSentences : mainLeft' = n
    /\ mainPc' = "clear"
    /\ mainOps' = mainOps + 1
    /\ UNCHANGED <<tts_lock, consumers, spkPc>>
    /\ UNCHANGED varsTts
    /\ UNCHANGED varsBesidesMouth

\* speak_streaming: one turn of the loop that drops the backlog
MainClearBacklog ==
    /\ mainPc = "clear"
    /\ IF tts_queue # <<>>
       THEN /\ tts_queue' = Tail(tts_queue)
            /\ unfinished_tasks' = unfinished_tasks - 1
            /\ UNCHANGED mainPc
       ELSE /\ mainPc' = "start"
            /\ UNCHANGED <<tts_queue, unfinished_tasks>>
    /\ UNCHANGED <<tts_lock, consumers, spkPc, mainLeft, mainOps>>
    /\ UNCHANGED <<online, is_tts_running, consumerPc, consumerSentence, uttered>>
    /\ UNCHANGED varsBesidesMouth

\* speak_streaming: start_tts_consumer()
MainStreamingStart ==
    /\ mainPc = "start"
    /\ StartConsumerBody
    /\ mainPc' = "put"
    /\ UNCHANGED <<tts_lock, spkPc, mainLeft, mainOps>>
    /\ UNCHANGED <<online, tts_queue, unfinished_tasks, consumerPc,
                   consumerSentence, uttered>>
    /\ UNCHANGED varsBesidesMouth

\* speak_streaming: tts_queue.put(sentence), one turn of the for loop
MainPut ==
    /\ mainPc = "put"
    /\ IF mainLeft > 0
       THEN /\ tts_queue' = Append(tts_queue, MouthSentence)
            /\ unfinished_tasks' = unfinished_tasks + 1
            /\ mainLeft' = mainLeft - 1
            /\ UNCHANGED mainPc
       ELSE /\ mainPc' = "ready"
            /\ UNCHANGED <<tts_queue, unfinished_tasks, mainLeft>>
    /\ UNCHANGED <<tts_lock, consumers, spkPc, mainOps>>
    /\ UNCHANGED <<online, is_tts_running, consumerPc, consumerSentence, uttered>>
    /\ UNCHANGED varsBesidesMouth

\* wait_for_tts_completion() is entered: tts_queue.join()
MainWait ==
    /\ mainPc = "ready" /\ mainOps < MaxMouthOps
    /\ mainPc' = "wait"
    /\ mainOps' = mainOps + 1
    /\ UNCHANGED <<tts_lock, consumers, spkPc, mainLeft>>
    /\ UNCHANGED varsTts
    /\ UNCHANGED varsBesidesMouth

\* tts_queue.join() returns
MainWaitReturns ==
    /\ mainPc = "wait"
    /\ JoinUnblocked
    /\ mainPc' = "ready"
    /\ UNCHANGED <<tts_lock, consumers, spkPc, mainLeft, mainOps>>
    /\ UNCHANGED varsTts
    /\ UNCHANGED varsBesidesMouth

\* _tts_consumer: while _is_tts_running or not tts_queue.empty()
ConsumerCheck(c) ==
    /\ consumers[c] = "check"
    /\ consumers' = [consumers EXCEPT ![c] =
                        IF is_tts_running \/ tts_queue # <<>> THEN "get" ELSE "exited"]
    /\ UNCHANGED <<tts_lock, spkPc, mainPc, mainLeft, mainOps>>
    /\ UNCHANGED varsTts
    /\ UNCHANGED varsBesidesMouth

\* _tts_consumer: tts_queue.get(timeout=1.0) returns a sentence and the speech
\* starts, or times out (queue.Empty: continue)
ConsumerTake(c) ==
    /\ consumers[c] = "get"
    /\ IF tts_queue # <<>>
       THEN /\ tts_queue' = Tail(tts_queue)
            /\ consumers' = [consumers EXCEPT ![c] = "speaking"]
       ELSE /\ consumers' = [consumers EXCEPT ![c] = "check"]
            /\ UNCHANGED tts_queue
    /\ UNCHANGED <<tts_lock, spkPc, mainPc, mainLeft, mainOps>>
    /\ UNCHANGED <<online, unfinished_tasks, is_tts_running, consumerPc,
                   consumerSentence, uttered>>
    /\ UNCHANGED varsBesidesMouth

\* mouth.py: _speak_async catches its own errors, task_done follows (208-210).
\* mouth2.py: an error of the engine lands in "except Exception: continue"
\* (160-162), past task_done
TaskDoneAfter(ok) == ok \/ online

\* the speech of a consumer ends, well or with an error
ConsumerSpeakEnds(c) ==
    /\ consumers[c] = "speaking"
    /\ \E ok \in BOOLEAN :
         unfinished_tasks' = IF TaskDoneAfter(ok) THEN unfinished_tasks - 1
                             ELSE unfinished_tasks
    /\ consumers' = [consumers EXCEPT ![c] = "check"]
    /\ UNCHANGED <<tts_lock, spkPc, mainPc, mainLeft, mainOps>>
    /\ UNCHANGED <<online, tts_queue, is_tts_running, consumerPc,
                   consumerSentence, uttered>>
    /\ UNCHANGED varsBesidesMouth

MainStep ==
    \/ MainSpeak
    \/ MainSpeakEnds
    \/ MainStartConsumer
    \/ MainStopConsumer
    \/ MainSpeakStreaming
    \/ MainClearBacklog
    \/ MainStreamingStart
    \/ MainPut
    \/ MainWait
    \/ MainWaitReturns

ConsumerStep(c) ==
    \/ ConsumerCheck(c)
    \/ ConsumerTake(c)
    \/ ConsumerSpeakEnds(c)

NextMouth ==
    \/ MainStep
    \/ \E c \in ConsumerIds : ConsumerStep(c)
    \/ \E t \in MonitorThreads : MonitorSpeak(t) \/ MonitorSpeakEnds(t)

SpecMouth == InitMouth /\ [][NextMouth]_vars

\* every thread that can take a step is scheduled again and again
SpecMouthLive ==
    /\ SpecMouth
    /\ WF_vars(MainStep)
    /\ \A c \in ConsumerIds : WF_vars(ConsumerStep(c))
    /\ \A t \in MonitorThreads : WF_vars(MonitorSpeakEnds(t))

\* C21 as stated: at no time are two utterances under way at once, whichever
\* threads started them: speak() on the main thread or on a monitor thread,
\* or a consumer thread working through the queue.
C21_NoOverlappingSpeech == Cardinality(Speaking) <= 1

\* C22 as stated: whatever start_tts_consumer, stop_tts_consumer and
\* speak_streaming calls were made, at most one thread runs _tts_consumer.
C22_OneConsumer == Cardinality(RunningConsumers) <= 1

\* C23 as stated: wait_for_tts_completion always returns, also when the
\* speech of a sentence failed inside the consumer.
C23_WaitTerminates == (mainPc = "wait") ~> (mainPc # "wait")

-----------------------------------------------------------------------------
(* Alarms (automation/integrations/alarm_reminder.py, main.py).  Reminders *)
(* run the same code on their own dictionaries and file.  Time is counted  *)
(* in seconds; an alarm id is "alarm_" followed by the second it was made. *)
(* A dictionary is an object: dicts holds the objects, and a module's name *)
(* active_alarms is bound to one of them.                                  *)

StartClock == 3
MaxClock == 5
MaxSets == 2

\* what alarms.json can hold at startup: alarms made at seconds 1 and 2, due
\* before or after the start
StoredIds == {1, 2}
StoredTimes == {StartClock - 1, StartClock + 1}
StoredDicts == UNION {[S -> StoredTimes] : S \in SUBSET StoredIds}

DictDel(dct, k) == [x \in DOMAIN dct \ {k} |-> dct[x]]

\* the ids of a set, in increasing order
RECURSIVE SeqOfSet(_)
SeqOfSet(S) ==
    IF S = {} THEN <<>>
    ELSE LET m == CHOOSE x \in S : \A y \in S : x <= y
         IN  <<m>> \o SeqOfSet(S \ {m})

PositionIn(seq, x) == CHOOSE i \in 1..Len(seq) : seq[i] = x

varsBesidesAlarm == <<varsTrim, varsStream, varsQA, varsHist, varsTts, varsOrch,
                      varsCall, varsCmd, varsMouth, varsParse, varsBattery>>

\* the state once alarm_reminder and main are imported: active_alarms = {}
\* (line 28), load_alarms() at the end of the module binds the name to what
\* json.load returns when the file exists, and main.py's from-import binds
\* its own name to the same object
InitAlarm ==
    /\ InitCmdIdle
    /\ InitCallIdle
    /\ InitOrchIdle
    /\ InitHistIdle
    /\ InitTrimIdle
    /\ InitStreamIdle
    /\ InitQAIdle
    /\ InitTtsIdle
    /\ online = TRUE
    /\ InitMouthIdle
    /\ InitParseIdle
    /\ InitBatteryIdle
    /\ clock = StartClock
    /\ alarm_file \in {[exists |-> FALSE, data |-> <<>>]}
                      \cup {[exists |-> TRUE, data |-> d] : d \in StoredDicts}
    /\ dicts = IF alarm_file.exists THEN <<<<>>, alarm_file.data>> ELSE <<<<>>>>
    /\ ar_active_alarms = Len(dicts)
    /\ main_active_alarms = Len(dicts)
    /\ alarm_threads = <<>>
    /\ workers = <<>>
    /\ cancelled = {}
    /\ everCancelled = FALSE
    /\ setLog = <<>>
    /\ almPc = "startup"

\* save_alarms(): json.dump(active_alarms, f) with the module's own binding
Saved(ds, binding) == [exists |-> TRUE, data |-> ds[binding]]

Worker(id, target) == [id |-> id, target |-> target, state |-> "sleeping"]

\* main.restore_alarms_and_reminders_on_startup, alarms part
RestoreOnStartup ==
    /\ almPc = "startup"
    /\ LET loaded  == alarm_file.exists
           dicts1  == IF loaded THEN Append(dicts, alarm_file.data) ELSE dicts
           ar1     == IF loaded THEN Len(dicts1) ELSE ar_active_alarms
           old     == dicts1[main_active_alarms]
           future  == {id \in DOMAIN old : old[id] > clock}
           order   == SeqOfSet(future)
           dicts2  == [dicts1 EXCEPT ![main_active_alarms] = [id \in future |-> old[id]]]
       IN  /\ dicts' = dicts2
           /\ ar_active_alarms' = ar1
           /\ workers' = workers \o [i \in 1..Len(order) |-> Worker(order[i], old[order[i]])]
           /\ alarm_threads' = [id \in DOMAIN alarm_threads \cup future |->
                                  IF id \in future THEN Len(workers) + PositionIn(order, id)
                                  ELSE alarm_threads[id]]
           /\ alarm_file' = Saved(dicts2, ar1)
    /\ almPc' = "restored"
    /\ UNCHANGED <<clock, main_active_alarms, cancelled, everCancelled, setLog>>
    /\ UNCHANGED varsBesidesAlarm

\* a second passes
Tick ==
    /\ almPc # "startup"
    /\ clock < MaxClock
    /\ clock' = clock + 1
    /\ almPc' = "running"
    /\ UNCHANGED <<alarm_file, dicts, ar_active_alarms, main_active_alarms, alarm_threads,
                   workers, cancelled, everCancelled, setLog>>
    /\ UNCHANGED varsBesidesAlarm

\* alarm_id = f"alarm_{int(time.time())}"
AlarmId == clock

\* set_alarm with a command whose time is understood: the alarm is due in one
\* or two seconds
SetAlarm ==
    /\ almPc # "startup"
    /\ Len(setLog) < MaxSets
    /\ \E target \in {clock + 1, clock + 2} :
         /\ dicts' = [dicts EXCEPT ![ar_active_alarms] = DictPut(@, AlarmId, target)]
         /\ workers' = Append(workers, Worker(AlarmId, target))
    /\ alarm_threads' = DictPut(alarm_threads, AlarmId, Len(workers) + 1)
    /\ alarm_file' = Saved(dicts', ar_active_alarms)
    /\ setLog' = Append(setLog, [id |-> AlarmId, worker |-> Len(workers) + 1])
    /\ almPc' = "running"
    /\ UNCHANGED <<clock, ar_active_alarms, main_active_alarms, cancelled, everCancelled>>
    /\ UNCHANGED varsBesidesAlarm

\* cancel_all_alarms: the two dictionaries are cleared and the file rewritten;
\* the worker threads are not told anything
CancelAllAlarms ==
    /\ almPc # "startup"
    /\ LET active == {w \in 1..Len(workers) :
                         /\ workers[w].state = "sleeping"
                         /\ workers[w].id \in DOMAIN dicts[ar_active_alarms]}
       IN  cancelled' = cancelled \cup active
    /\ everCancelled' = TRUE
    /\ dicts' = [dicts EXCEPT ![ar_active_alarms] = <<>>]
    /\ alarm_threads' = <<>>
    /\ alarm_file' = Saved(dicts', ar_active_alarms)
    /\ almPc' = "running"
    /\ UNCHANGED <<clock, ar_active_alarms, main_active_alarms, workers, setLog>>
    /\ UNCHANGED varsBesidesAlarm

\* alarm_worker: the sleep is over; notification, sound, and the alarm is
\* taken out of active_alarms, the file and alarm_threads
AlarmWorkerFires(w) ==
    /\ almPc # "startup"
    /\ workers[w].state = "sleeping"
    /\ clock >= workers[w].target
    /\ workers' = [workers EXCEPT ![w].state = "fired"]
    /\ dicts' = [dicts EXCEPT ![ar_active_alarms] = DictDel(@, workers[w].id)]
    /\ alarm_file' = Saved(dicts', ar_active_alarms)
    /\ alarm_threads' = DictDel(alarm_threads, workers[w].id)
    /\ almPc' = "running"
    /\ UNCHANGED <<clock, ar_active_alarms, main_active_alarms, cancelled, everCancelled,
                   setLog>>
    /\ UNCHANGED varsBesidesAlarm

NextAlarm ==
    \/ RestoreOnStartup
    \/ Tick
    \/ SetAlarm
    \/ CancelAllAlarms
    \/ \E w \in 1..Len(workers) : AlarmWorkerFires(w)

SpecAlarm == InitAlarm /\ [][NextAlarm]_vars

\* the set list_alarms, save_alarms and the workers use
ActiveAlarms == dicts[ar_active_alarms]

SleepingWorkersOf(id) ==
    {w \in 1..Len(workers) : workers[w].id = id /\ workers[w].state = "sleeping"}

\* C24 as stated: an alarm that was active when cancel_all_alarms was called
\* never triggers its notification or sound afterwards.
C24_CancelledNeverFires == \A w \in cancelled : workers[w].state # "fired"

\* C25 as stated: when the restore has completed, the active set and the file
\* hold no alarm whose time has passed, and every alarm left has exactly one
\* worker thread.
C25_RestoreDropsExpired ==
    almPc = "restored" =>
        /\ \A id \in DOMAIN ActiveAlarms :
              /\ ActiveAlarms[id] > clock
              /\ Cardinality(SleepingWorkersOf(id)) = 1
        /\ \A id \in DOMAIN alarm_file.data : alarm_file.data[id] > clock

NothingFiredOrCancelled ==
    /\ ~everCancelled
    /\ \A w \in 1..Len(workers) : workers[w].state = "sleeping"

\* C29 as stated: with nothing fired or cancelled, the n successful set_alarm
\* calls made so far have n distinct ids, each of them in active_alarms with
\* its own worker thread recorded in alarm_threads.
C29_UniqueAlarmIds ==
    NothingFiredOrCancelled =>
        /\ \A i, j \in 1..Len(setLog) : i # j => setLog[i].id # setLog[j].id
        /\ \A i \in 1..Len(setLog) :
              /\ setLog[i].id \in DOMAIN ActiveAlarms
              /\ setLog[i].id \in DOMAIN alarm_threads
              /\ alarm_threads[setLog[i].id] = setLog[i].worker

-----------------------------------------------------------------------------
(* Relative times of alarm and reminder commands (alarm_reminder.py).  A   *)
(* command is a sequence of tokens, words and whole numbers, which the     *)
(* text holds separated by single blanks; a regular expression of the code *)
(* is matched token by token, at the leftmost place it fits.  Times are    *)
(* minutes.                                                                *)

MaxHours == 2

W(w) == [word |-> w, num |-> 0]
N(n) == [word |-> "#", num |-> n]
IsNum(t) == t.word = "#"

HourWords == {"hour", "hours"}
\* "minutes?" and "mins?" are not anchored at the word's end: both fit "minutes"
MinuteWords == {"minute", "minutes"}
MinWords == MinuteWords \cup {"min", "mins"}
HrWords == HourWords \cup {"hr", "hrs"}

\* the commands: an optional "in" or "after", hours, minutes, an optional
\* "to" or "that", an optional message
CommandForms ==
    [prefix : {"", "in", "after"},
     h      : 0..MaxHours,
     hword  : HourWords,
     m      : {0, 15, 30},
     link   : {"", "to", "that"},
     msg    : {<<>>, <<W("call"), W("john")>>}]

Opt(w) == IF w = "" THEN <<>> ELSE <<W(w)>>

CommandText(f) ==
    Opt(f.prefix)
    \o (IF f.h > 0 THEN <<N(f.h), W(f.hword)>> ELSE <<>>)
    \o (IF f.m > 0 THEN <<N(f.m), W("minutes")>> ELSE <<>>)
    \o Opt(f.link)
    \o f.msg

\* the pattern  prefix\s+(\d+)\s*unit\s+[link\s+](.+)  fits at token i
FitsSimple(ts, i, prefix, units, link) ==
    LET k == IF link = "" THEN i + 3 ELSE i + 4
    IN  /\ k <= Len(ts)
        /\ ts[i].word = prefix
        /\ IsNum(ts[i + 1])
        /\ ts[i + 2].word \in units
        /\ link # "" => ts[i + 3].word = link

\* the pattern  in\s+(\d+)\s*hours?\s*(\d+)\s*minutes?\s+[to\s+](.+)
FitsMixed(ts, i, link) ==
    LET k == IF link = "" THEN i + 5 ELSE i + 6
    IN  /\ k <= Len(ts)
        /\ ts[i].word = "in"
        /\ IsNum(ts[i + 1])
        /\ ts[i + 2].word \in HourWords
        /\ IsNum(ts[i + 3])
        /\ ts[i + 4].word \in MinuteWords
        /\ link # "" => ts[i + 5].word = link

\* parse_relative_time's list of patterns, in its order
RelativePatterns ==
    << [prefix |-> "in",    type |-> "hours",   link |-> "to"],
       [prefix |-> "in",    type |-> "minutes", link |-> "to"],
       [prefix |-> "after", type |-> "hours",   link |-> "to"],
       [prefix |-> "after", type |-> "minutes", link |-> "to"],
       [prefix |-> "in",    type |-> "hours",   link |-> ""],
       [prefix |-> "in",    type |-> "minutes", link |-> ""],
       [prefix |-> "after", type |-> "hours",   link |-> ""],
       [prefix |-> "after", type |-> "minutes", link |-> ""],
       [prefix |-> "in",    type |-> "hours",   link |-> "that"],
       [prefix |-> "in",    type |-> "minutes", link |-> "that"],
       [prefix |-> "in",    type |-> "mixed",   link |-> "to"],
       [prefix |-> "in",    type |-> "mixed",   link |-> ""] >>

Fits(ts, i, p) ==
    IF p.type = "mixed" THEN FitsMixed(ts, i, p.link)
    ELSE FitsSimple(ts, i, p.prefix,
                    IF p.type = "hours" THEN HourWords ELSE MinuteWords, p.link)

\* re.search: the places where the pattern fits
Matches(ts, p) == {i \in 1..Len(ts) : Fits(ts, i, p)}

Leftmost(S) == CHOOSE i \in S : \A j \in S : i <= j

\* where a number is followed by one of the unit words: (\d+)\s*unit
NumberBefore(ts, units) ==
    {i \in 1..(Len(ts) - 1) : IsNum(ts[i]) /\ ts[i + 1].word \in units}

HasWords(ts, ws) ==
    \E i \in 1..(Len(ts) - Len(ws) + 1) : \A k \in 1..Len(ws) : ts[i + k - 1].word = ws[k]

\* parse_duration: total minutes, or NoDuration for None.  (No command here
\* has a decimal number, so the decimal-hours pattern never fits.)
NoDuration == -1

parse_duration(ts) ==
    IF HasWords(ts, <<"half", "an", "hour">>) \/ HasWords(ts, <<"half", "hour">>) THEN 30
    ELSE IF HasWords(ts, <<"quarter", "of", "an", "hour">>) \/ HasWords(ts, <<"quarter", "hour">>)
    THEN 15
    ELSE IF NumberBefore(ts, MinuteWords) # {}
    THEN ts[Leftmost(NumberBefore(ts, MinuteWords))].num
    ELSE IF NumberBefore(ts, MinWords) # {}
    THEN ts[Leftmost(NumberBefore(ts, MinWords))].num
    ELSE IF NumberBefore(ts, HourWords) # {}
    THEN ts[Leftmost(NumberBefore(ts, HourWords))].num * 60
    ELSE IF NumberBefore(ts, HrWords) # {}
    THEN ts[Leftmost(NumberBefore(ts, HrWords))].num * 60
    ELSE IF \E i \in NumberBefore(ts, HrWords) :
               i + 2 \in NumberBefore(ts, MinWords)
    THEN LET i == Leftmost({x \in NumberBefore(ts, HrWords) :
                               x + 2 \in NumberBefore(ts, MinWords)})
         IN  ts[i].num * 60 + ts[i + 2].num
    ELSE NoDuration

\* the first pattern of the list that fits somewhere
FirstPattern(ts) ==
    LET P == {k \in 1..Len(RelativePatterns) : Matches(ts, RelativePatterns[k]) # {}}
    IN  IF P = {} THEN 0 ELSE Leftmost(P)

NoTarget == -1

\* parse_relative_time: the target time (first component of the result), or
\* NoTarget for (None, "")
parse_relative_time(ts, now) ==
    IF FirstPattern(ts) # 0
    THEN LET p == RelativePatterns[FirstPattern(ts)]
             i == Leftmost(Matches(ts, p))
         IN  IF p.type = "hours" THEN now + ts[i + 1].num * 60
             ELSE IF p.type = "minutes" THEN now + ts[i + 1].num
             ELSE now + ts[i + 1].num * 60 + ts[i + 3].num
    ELSE IF parse_duration(ts) \notin {NoDuration, 0}
    THEN now + parse_duration(ts)
    ELSE NoTarget

varsBesidesParse == <<varsTrim, varsStream, varsQA, varsHist, varsTts, varsOrch,
                      varsCall, varsCmd, varsMouth, varsAlarm, varsBattery>>

InitParse ==
    /\ InitCmdIdle
    /\ InitCallIdle
    /\ InitOrchIdle
    /\ InitHistIdle
    /\ InitTrimIdle
    /\ InitStreamIdle
    /\ InitQAIdle
    /\ InitTtsIdle
    /\ online = TRUE
    /\ InitMouthIdle
    /\ InitAlarmIdle
    /\ InitBatteryIdle
    /\ prsForm \in {f \in CommandForms : f.h > 0 \/ f.m > 0}
    /\ prsNow \in {0, 600}
    /\ prsTarget = NoTarget
    /\ prsDuration = NoDuration
    /\ prsPc = "start"

\* set_alarm / set_reminder: target_time, message = parse_relative_time(command_lower)
ParseRelativeTime ==
    /\ prsPc = "start"
    /\ prsTarget' = parse_relative_time(CommandText(prsForm), prsNow)
    /\ prsPc' = "relative"
    /\ UNCHANGED <<prsForm, prsNow, prsDuration>>
    /\ UNCHANGED varsBesidesParse

\* parse_duration on the same text
ParseDuration ==
    /\ prsPc = "relative"
    /\ prsDuration' = parse_duration(CommandText(prsForm))
    /\ prsPc' = "done"
    /\ UNCHANGED <<prsForm, prsNow, prsTarget>>
    /\ UNCHANGED varsBesidesParse

NextParse ==
    \/ ParseRelativeTime
    \/ ParseDuration

SpecParse == InitParse /\ [][NextParse]_vars

\* C26 as stated: a command that names both hours and minutes is scheduled at
\* now + H hours + M minutes, and parse_duration gives H*60 + M for it.
C26_MixedHoursAndMinutes ==
    (prsPc = "done" /\ prsForm.prefix = "in" /\ prsForm.h > 0 /\ prsForm.m > 0) =>
        /\ prsTarget = prsNow + prsForm.h * 60 + prsForm.m
        /\ prsDuration = prsForm.h * 60 + prsForm.m

-----------------------------------------------------------------------------
(* BatteryMonitor (activities/battery_features.py): the two monitoring     *)
(* loops, each on its own thread, and start_monitoring / stop_monitoring   *)
(* called on the main thread.                                              *)

MaxStarts == 2
MaxReadings == 3

\* what get_battery_info returns: a percentage and whether the charger is in
BatteryReadings ==
    {[percent |-> 5,   plugged |-> FALSE],
     [percent |-> 20,  plugged |-> FALSE],
     [percent |-> 50,  plugged |-> FALSE],
     [percent |-> 97,  plugged |-> TRUE],
     [percent |-> 100, plugged |-> FALSE],
     [percent |-> 100, plugged |-> TRUE]}

FullThreshold == 100
ResetThreshold == 95
LowBattery == 30
CriticalBattery == 10

varsBesidesBattery == <<varsTrim, varsStream, varsQA, varsHist, varsTts, varsOrch,
                        varsCall, varsCmd, varsMouth, varsAlarm, varsParse>>

\* BatteryMonitor.__init__
InitBattery ==
    /\ InitCmdIdle
    /\ InitCallIdle
    /\ InitOrchIdle
    /\ InitHistIdle
    /\ InitTrimIdle
    /\ InitStreamIdle
    /\ InitQAIdle
    /\ InitTtsIdle
    /\ online = TRUE
    /\ InitMouthIdle
    /\ InitAlarmIdle
    /\ InitParseIdle
    /\ monitoring = FALSE
    /\ previous_plugged_state = NoneVal
    /\ alertThreads = <<>>
    /\ pluginThreads = <<>>
    /\ batPc = "ready"
    /\ batLast = "none"
    /\ batStarts = 0
    /\ readings = 0

AlertThread == [state |-> "new", notified_full |-> FALSE, log |-> <<>>]

\* stop_monitoring: self.monitoring = False; the joins with timeout=2 follow
StopMonitoring ==
    /\ batPc = "ready"
    /\ monitoring' = FALSE
    /\ batPc' = "stop_join"
    /\ UNCHANGED <<previous_plugged_state, alertThreads, pluginThreads, batLast, batStarts,
                   readings>>
    /\ UNCHANGED varsBesidesBattery

\* stop_monitoring returns: each join has ended, because its thread has or
\* because two seconds have gone by
StopMonitoringReturns ==
    /\ batPc = "stop_join"
    /\ batPc' = "ready"
    /\ batLast' = "stop"
    /\ UNCHANGED <<monitoring, previous_plugged_state, alertThreads, pluginThreads,
                   batStarts, readings>>
    /\ UNCHANGED varsBesidesBattery

\* start_monitoring: self.stop_monitoring() first
StartMonitoring ==
    /\ batPc = "ready"
    /\ batStarts < MaxStarts
    /\ monitoring' = FALSE
    /\ batPc' = "start_join"
    /\ batStarts' = batStarts + 1
    /\ UNCHANGED <<previous_plugged_state, alertThreads, pluginThreads, batLast, readings>>
    /\ UNCHANGED varsBesidesBattery

\* start_monitoring, after the joins: self.monitoring = True, two new threads
StartMonitoringSpawns ==
    /\ batPc = "start_join"
    /\ monitoring' = TRUE
    /\ alertThreads' = Append(alertThreads, AlertThread)
    /\ pluginThreads' = Append(pluginThreads, "new")
    /\ batPc' = "ready"
    /\ batLast' = "start"
    /\ UNCHANGED <<previous_plugged_state, batStarts, readings>>
    /\ UNCHANGED varsBesidesBattery

\* the if/elif chain of battery_alert: the branch a reading takes
AlertBranch(r, notified_full) ==
    IF r.percent < CriticalBattery THEN "critical"
    ELSE IF r.percent < LowBattery THEN "low"
    ELSE IF r.percent = FullThreshold /\ r.plugged /\ ~notified_full THEN "full"
    ELSE IF r.percent < ResetThreshold THEN "reset"
    ELSE "none"

\* battery_alert begins: self.monitoring = True; notified_full = False
AlertBegins(t) ==
    /\ t \in 1..Len(alertThreads)
    /\ alertThreads[t].state = "new"
    /\ monitoring' = TRUE
    /\ alertThreads' = [alertThreads EXCEPT ![t].state = "loop"]
    /\ UNCHANGED <<previous_plugged_state, pluginThreads, batPc, batLast, batStarts, readings>>
    /\ UNCHANGED varsBesidesBattery

\* battery_alert: the loop test and, while monitoring, one pass of the body
\* with its sleep. get_battery_info gives None (nothing but the sleep
\* happens) or a reading, which goes down the if/elif chain
AlertIterates(t) ==
    /\ t \in 1..Len(alertThreads)
    /\ alertThreads[t].state = "loop"
    /\ IF ~monitoring
       THEN /\ alertThreads' = [alertThreads EXCEPT ![t].state = "exited"]
            /\ UNCHANGED readings
       ELSE \/ UNCHANGED <<alertThreads, readings>>
            \/ /\ readings < MaxReadings
               /\ readings' = readings + 1
               /\ \E r \in BatteryReadings :
                    LET a      == alertThreads[t]
                        branch == AlertBranch(r, a.notified_full)
                    IN  alertThreads' =
                          [alertThreads EXCEPT ![t] =
                             [state |-> "loop",
                              notified_full |->
                                  IF branch = "full" THEN TRUE
                                  ELSE IF branch = "reset" THEN FALSE
                                  ELSE a.notified_full,
                              log |-> Append(a.log, [percent |-> r.percent,
                                                     plugged |-> r.plugged,
                                                     full |-> branch = "full"])]]
    /\ UNCHANGED <<monitoring, previous_plugged_state, pluginThreads, batPc, batLast,
                   batStarts>>
    /\ UNCHANGED varsBesidesBattery

\* check_plugin_status begins: self.monitoring = True and the first reading
PluginBegins(t) ==
    /\ t \in 1..Len(pluginThreads)
    /\ pluginThreads[t] = "new"
    /\ monitoring' = TRUE
    /\ \E p \in {NoneVal, "plugged", "unplugged"} :
         previous_plugged_state' = IF p = NoneVal THEN previous_plugged_state ELSE p
    /\ pluginThreads' = [pluginThreads EXCEPT ![t] = "loop"]
    /\ UNCHANGED <<alertThreads, batPc, batLast, batStarts, readings>>
    /\ UNCHANGED varsBesidesBattery

\* check_plugin_status: the loop test and, while monitoring, one pass of the
\* body with its sleep
PluginIterates(t) ==
    /\ t \in 1..Len(pluginThreads)
    /\ pluginThreads[t] = "loop"
    /\ IF ~monitoring
       THEN /\ pluginThreads' = [pluginThreads EXCEPT ![t] = "exited"]
            /\ UNCHANGED previous_plugged_state
       ELSE /\ UNCHANGED pluginThreads
            /\ \E p \in {NoneVal, "plugged", "unplugged"} :
                 previous_plugged_state' = IF p = NoneVal THEN previous_plugged_state ELSE p
    /\ UNCHANGED <<monitoring, alertThreads, batPc, batLast, batStarts, readings>>
    /\ UNCHANGED varsBesidesBattery

AlertStep(t) == AlertBegins(t) \/ AlertIterates(t)

PluginStep(t) == PluginBegins(t) \/ PluginIterates(t)

MonitorCall ==
    \/ StartMonitoring
    \/ StartMonitoringSpawns
    \/ StopMonitoring
    \/ StopMonitoringReturns

NextBattery ==
    \/ MonitorCall
    \/ \E t \in 1..MaxStarts : AlertStep(t) \/ PluginStep(t)

SpecBattery == InitBattery /\ [][NextBattery]_vars

\* every thread that can take a step gets to take it
SpecBatteryLive ==
    /\ SpecBattery
    /\ WF_vars(StartMonitoringSpawns)
    /\ WF_vars(StopMonitoringReturns)
    /\ \A t \in 1..MaxStarts : WF_vars(AlertStep(t)) /\ WF_vars(PluginStep(t))

RunningAlertThreads == {t \in 1..Len(alertThreads) : alertThreads[t].state # "exited"}
RunningPluginThreads == {t \in 1..Len(pluginThreads) : pluginThreads[t] # "exited"}

\* C27 as stated, for every battery_alert thread and the readings it has
\* taken: once the full notification was given and a later reading was below
\* 95%, the next reading of 100% while plugged in gives the notification
\* again; and two full notifications always have such a drop between them.
C27_FullNotificationRearmed ==
    \A t \in 1..Len(alertThreads) :
        LET log == alertThreads[t].log
        IN  /\ \A i, k, j \in 1..Len(log) :
                  (/\ i < k /\ k < j
                   /\ log[i].full
                   /\ log[k].percent < ResetThreshold
                   /\ log[j].percent = FullThreshold /\ log[j].plugged
                   /\ \A x \in (k + 1)..(j - 1) :
                         ~(log[x].percent = FullThreshold /\ log[x].plugged))
                  => log[j].full
            /\ \A i, j \in 1..Len(log) :
                  (i < j /\ log[i].full /\ log[j].full)
                  => \E k \in (i + 1)..(j - 1) : log[k].percent < ResetThreshold

\* C28 as stated: at most one battery_alert thread and at most one
\* check_plugin_status thread are running, whatever start_monitoring and
\* stop_monitoring calls were made, and once stop_monitoring has returned
\* every monitoring thread exits in the end.
C28_NoDuplicateMonitors ==
    /\ [](Cardinality(RunningAlertThreads) <= 1 /\ Cardinality(RunningPluginThreads) <= 1)
    /\ (batLast = "stop" /\ batPc = "ready")
          ~> (batLast # "stop" \/ (RunningAlertThreads = {} /\ RunningPluginThreads = {}))

====
